---- MODULE Spec2Model ----
(***************************************************************************)
(* A model of tetracycle_firebase_bridge.py: the bridge between the        *)
(* Arduino's serial byte stream and the Firebase realtime database.        *)
(*                                                                         *)
(* Text is modelled character by character: a Python str is a sequence of  *)
(* one-character strings.  Indices of the Python-named helpers (find,      *)
(* rfind, slices) are 0-based as in the source.  Time is an integer count  *)
(* of ticks of 0.05 s, the shortest sleep of the program.                  *)
(***************************************************************************)
EXTENDS Integers, Sequences, FiniteSets, TLC

(***************************************************************************)
(* Python str helpers                                                      *)
(***************************************************************************)
\* the least element of a non-empty set of integers
Least(S) == CHOOSE i \in S : \A j \in S : i <= j
Greatest(S) == CHOOSE i \in S : \A j \in S : i >= j

\* str.find(c, start): the 0-based index of the first c at or after start, or -1
FindFrom(s, c, start) ==
    LET at == {i \in start..(Len(s) - 1) : s[i + 1] = c}
    IN  IF at = {} THEN -1 ELSE Least(at)

\* str.rfind(c): the 0-based index of the last c, or -1
RFind(s, c) ==
    LET at == {i \in 0..(Len(s) - 1) : s[i + 1] = c}
    IN  IF at = {} THEN -1 ELSE Greatest(at)

\* c in s
Contains(s, c) == \E i \in 1..Len(s) : s[i] = c

\* s[a:b] and s[a:] for a, b >= 0
Slice(s, a, b) == SubSeq(s, a + 1, b)
SliceFrom(s, a) == SubSeq(s, a + 1, Len(s))

\* n copies of the character c
Rep(c, n) == [i \in 1..n |-> c]

(***************************************************************************)
(* JSON values.  Every value is a record of one shape: t is the type tag,  *)
(* n the number (or 1/0 of a bool), s the characters of a string, l the    *)
(* elements of a list.                                                     *)
(***************************************************************************)
JInt(n) == [t |-> "int", n |-> n, s |-> <<>>, l |-> <<>>]
JStr(s) == [t |-> "str", n |-> 0, s |-> s, l |-> <<>>]
JList(l) == [t |-> "list", n |-> 0, s |-> <<>>, l |-> l]
JBool(b) == [t |-> "bool", n |-> IF b THEN 1 ELSE 0, s |-> <<>>, l |-> <<>>]
JNull == [t |-> "null", n |-> 0, s |-> <<>>, l |-> <<>>]

\* Python truthiness of a JSON value: bool(v)
Truthy(v) ==
    CASE v.t = "int" -> v.n # 0
      [] v.t = "bool" -> v.n # 0
      [] v.t = "str" -> Len(v.s) > 0
      [] v.t = "list" -> Len(v.l) > 0
      [] OTHER -> FALSE

(***************************************************************************)
(* A dict with str keys: the sequence of its items [k, v] in insertion     *)
(* order, keys unique.  A key is the character sequence of the str.        *)
(***************************************************************************)
HasKey(d, k) == \E i \in 1..Len(d) : d[i].k = k
GetKey(d, k) == d[CHOOSE i \in 1..Len(d) : d[i].k = k].v
PutKey(d, k, v) ==
    IF HasKey(d, k)
    THEN [i \in 1..Len(d) |-> IF d[i].k = k THEN [k |-> k, v |-> v] ELSE d[i]]
    ELSE Append(d, [k |-> k, v |-> v])

K_ph == <<"p", "h">>
K_turbidity == <<"t", "u", "r", "b", "i", "d", "i", "t", "y">>
K_tds == <<"t", "d", "s">>
K_pumps == <<"p", "u", "m", "p", "s">>
K_pump1 == <<"p", "u", "m", "p", "1">>
K_pump2 == <<"p", "u", "m", "p", "2">>
K_servo == <<"s", "e", "r", "v", "o">>
K_system == <<"s", "y", "s", "t", "e", "m">>

(***************************************************************************)
(* json.loads on a str over the alphabet                                   *)
(*   { } [ ] " : , space newline, digits, lower-case letters.              *)
(* Without '-', '.', 'e'-exponents after digits, backslash or capitals a   *)
(* number is a plain non-negative integer and a string has no escapes.     *)
(* A parser returns [ok, pos, val]: pos is the 1-based position after the  *)
(* parsed text.                                                            *)
(***************************************************************************)
Q == "\""
NL == "\n"
Whitespace == {" ", NL}
Digits == {"0", "1", "2", "3", "4", "5", "6", "7", "8", "9"}

DigitVal(c) ==
    CASE c = "0" -> 0 [] c = "1" -> 1 [] c = "2" -> 2 [] c = "3" -> 3
      [] c = "4" -> 4 [] c = "5" -> 5 [] c = "6" -> 6 [] c = "7" -> 7
      [] c = "8" -> 8 [] c = "9" -> 9

\* the character at 1-based position i, "" past the end
At(s, i) == IF i >= 1 /\ i <= Len(s) THEN s[i] ELSE ""

ParseFail == [ok |-> FALSE, pos |-> 0, val |-> JNull]
ParseOk(pos, val) == [ok |-> TRUE, pos |-> pos, val |-> val]

\* the first position at or after i that holds no whitespace
SkipWs(s, i) ==
    LET at == {j \in i..Len(s) : s[j] \notin Whitespace}
    IN  IF at = {} THEN Len(s) + 1 ELSE Least(at)

RECURSIVE ScanDigits(_, _, _)
\* the digits from position i on, accumulated into acc
ScanDigits(s, i, acc) ==
    IF At(s, i) \in Digits
    THEN ScanDigits(s, i + 1, 10 * acc + DigitVal(s[i]))
    ELSE ParseOk(i, JInt(acc))

\* NUMBER_RE of json.scanner: 0 | [1-9][0-9]*
ParseNumber(s, i) ==
    IF s[i] = "0" THEN ParseOk(i + 1, JInt(0)) ELSE ScanDigits(s, i, 0)

\* close is the 1-based position of the closing quote, 0 if there is none
StringUntil(s, i, close) ==
    IF close = 0 \/ Contains(SubSeq(s, i + 1, close - 1), NL) THEN ParseFail
    ELSE ParseOk(close + 1, JStr(SubSeq(s, i + 1, close - 1)))

\* a string starting at the quote at position i
ParseString(s, i) == StringUntil(s, i, FindFrom(s, Q, i) + 1)

StartsWith(s, i, w) == i + Len(w) - 1 <= Len(s) /\ SubSeq(s, i, i + Len(w) - 1) = w

RECURSIVE ParseValue(_, _)
RECURSIVE ParseElements(_, _, _)

\* v parsed as the next element of the array
ElementsAfterValue(s, v, acc) ==
    IF v.ok THEN ParseElements(s, v.pos, Append(acc, v.val)) ELSE ParseFail

\* the rest of an array after a value: (, value)* ]
ParseElements(s, i, acc) ==
    IF At(s, SkipWs(s, i)) = "]" THEN ParseOk(SkipWs(s, i) + 1, JList(acc))
    ELSE IF At(s, SkipWs(s, i)) = ","
    THEN ElementsAfterValue(s, ParseValue(s, SkipWs(s, SkipWs(s, i) + 1)), acc)
    ELSE ParseFail

ParseArray(s, i) ==
    IF At(s, SkipWs(s, i + 1)) = "]" THEN ParseOk(SkipWs(s, i + 1) + 1, JList(<<>>))
    ELSE ElementsAfterValue(s, ParseValue(s, SkipWs(s, i + 1)), <<>>)

\* A nested object never parses: the text handed to json.loads ends at the
\* first '}' after its first '{', so an inner object is never closed.
ParseValue(s, i) ==
    LET c == At(s, i)
    IN  CASE c = Q -> ParseString(s, i)
          [] c \in Digits -> ParseNumber(s, i)
          [] c = "[" -> ParseArray(s, i)
          [] c = "t" /\ StartsWith(s, i, <<"t", "r", "u", "e">>) ->
                ParseOk(i + 4, JBool(TRUE))
          [] c = "f" /\ StartsWith(s, i, <<"f", "a", "l", "s", "e">>) ->
                ParseOk(i + 5, JBool(FALSE))
          [] c = "n" /\ StartsWith(s, i, <<"n", "u", "l", "l">>) ->
                ParseOk(i + 4, JNull)
          [] OTHER -> ParseFail

DictFail == [ok |-> FALSE, pos |-> 0, dict |-> <<>>]

RECURSIVE ParseMembers(_, _, _)

\* after "key": value (k, v parsed): '}' ends the object, ',' goes on
MembersAfterValue(s, k, v, acc) ==
    IF ~v.ok THEN DictFail
    ELSE IF At(s, SkipWs(s, v.pos)) = "}"
    THEN [ok |-> TRUE, pos |-> SkipWs(s, v.pos) + 1, dict |-> PutKey(acc, k.val.s, v.val)]
    ELSE IF At(s, SkipWs(s, v.pos)) = ","
    THEN ParseMembers(s, SkipWs(s, SkipWs(s, v.pos) + 1), PutKey(acc, k.val.s, v.val))
    ELSE DictFail

\* after "key" (k parsed): ':' and the value
MembersAfterKey(s, k, acc) ==
    IF ~k.ok \/ At(s, SkipWs(s, k.pos)) # ":" THEN DictFail
    ELSE MembersAfterValue(s, k, ParseValue(s, SkipWs(s, SkipWs(s, k.pos) + 1)), acc)

\* the members of an object from the quote of a key at position i on
ParseMembers(s, i, acc) ==
    IF At(s, i) # Q THEN DictFail ELSE MembersAfterKey(s, ParseString(s, i), acc)

\* nothing but whitespace may follow the object (r parsed)
WholeText(s, r) ==
    IF r.ok /\ SkipWs(s, r.pos) = Len(s) + 1
    THEN [ok |-> TRUE, dict |-> r.dict]
    ELSE [ok |-> FALSE, dict |-> <<>>]

\* json.loads(s) for a text that starts with '{': [ok, dict]; ok is FALSE
\* where json.loads raises JSONDecodeError
JsonLoads(s) ==
    IF At(s, 1) # "{" THEN [ok |-> FALSE, dict |-> <<>>]
    ELSE IF At(s, SkipWs(s, 2)) = "}"
    THEN WholeText(s, [ok |-> TRUE, pos |-> SkipWs(s, 2) + 1, dict |-> <<>>])
    ELSE WholeText(s, ParseMembers(s, SkipWs(s, 2), <<>>))

(***************************************************************************)
(* Program constants                                                       *)
(***************************************************************************)
\* time.time() is modelled in ticks of 0.05 s (the main loop's sleep)
TicksPerSecond == 20
\* read_and_upload_data: len(json_str) < 5 or len(json_str) > 500
MinFrameLen == 5
MaxFrameLen == 500
\* read_and_upload_data: a '{' without '}' and len(buffer) > 100
CorruptLen == 100
\* read_and_upload_data: len(buffer) > 500 after the extraction loop
MaxBufferLen == 500
\* read_and_upload_data: error_count % 1000 == 0, error_count > 10000
ErrorReportEvery == 1000
ErrorClearAbove == 10000

(***************************************************************************)
(* State                                                                   *)
(***************************************************************************)
VARIABLES
    current_status,   \* the global current_status dict
    buffer,           \* read_and_upload_data.buffer
    error_count,      \* read_and_upload_data.error_count
    ser,              \* the serial.Serial object: is_open, and what was done to it
    wire,             \* the bytes the device has still to deliver, in order
    script,           \* the device messages wire was built from (never changes)
    merges,           \* history: every update_status call, in order
    one_read,         \* history: one read took the device's whole output
    faults,           \* the faults injected so far: of the stream's reads and writes,
                      \* of the remote store, of closing and opening the port
    hung,             \* control sits in a loop that never exits
    now,              \* time.time(), in ticks
    serial_lock,      \* who holds serial_lock: "free" or the holder
    status_lock,      \* who holds status_lock: "free" or the holder
    send,             \* the running (or last) call of send_command_to_arduino
    remote,           \* the document at CONTROL_DB_PATH of the remote store
    plan,             \* what the dashboard does before each coming poll of the document
    previous_control, \* process_control_values.previous_control
    recon,            \* the running call of process_control_values
    listener,         \* control_listener: its position and its previous_control
    cycles,           \* history: every reconciliation cycle, in order
    main,             \* main(): its position and its local variables
    store_up,         \* the remote store answers (its calls raise otherwise)
    sensor_db,        \* the records at SENSOR_DB_PATH: items [k, v], k the timestamp key
    resets,           \* history: every call of reset_serial_port by main, in order
    stalls,           \* how many calls of the remote store have run into a timeout
    running           \* the shutdown flag of line 21

\* the state read_and_upload_data and update_status work on, the rest
decodeVars == <<current_status, buffer, error_count, ser, wire, script, merges,
                one_read, faults, hung>>
sendVars == <<now, serial_lock, status_lock, send>>
reconVars == <<remote, plan, previous_control, recon, listener, cycles>>
\* the state of the callers of read_and_upload_data and send_command_to_arduino
mainVars == <<main, store_up, sensor_db, resets, stalls, running>>
callerVars == <<reconVars, mainVars>>
vars == <<decodeVars, sendVars, callerVars>>

\* current_status as the module sets it at import (lines 25-32)
InitialStatus ==
    [ph |-> JInt(0), turbidity |-> JInt(0), tds |-> JInt(0),
     pumps |-> JList(<<JInt(0), JInt(0)>>), servo |-> JInt(0), system |-> JInt(0)]

\* a freshly opened serial.Serial
OpenSerial == [is_open |-> TRUE, written |-> <<>>, flushes |-> 0]

(***************************************************************************)
(* Bounds of the model, and the device messages the environment sends      *)
(***************************************************************************)
\* faults of one kind the environment injects in one run
MaxFaults == 1
\* read_and_upload_data.error_count is not counted beyond this
MaxErrorCount == 3
\* a read returns a multiple of CoarseChunk characters, everything that is
\* left, or, once at most FineZone characters are left, 1 to FineChunk characters
FineChunk == 9
CoarseChunk == 35
FineZone == 150
\* the blanks inside the long frame, the lone '{' characters and the noise
\* characters the device sends in the scenarios below
LongPad == 90
BraceRun == 130
NoiseOver == 20

ReadSizes(w) ==
    {n \in 1..Len(w) : \/ n <= FineChunk /\ Len(w) <= FineZone
                       \/ n % CoarseChunk = 0
                       \/ n = Len(w)}

\* "key":value as text
Member(key, value) == <<Q>> \o key \o <<Q, ":">> \o value
Item(k, v) == [k |-> k, v |-> v]

\* A device message: its text, whether it is a frame of the wire format
\* (one JSON object of 5 to 500 characters over the recognised fields),
\* and for a frame the fields it carries, written out by hand.
F_ph ==
    [text |-> <<"{">> \o Member(K_ph, <<"7">>) \o <<"}">>,
     frame |-> TRUE, dict |-> <<Item(K_ph, JInt(7))>>]
F_spec1 ==
    [text |-> <<"{">> \o Member(K_ph, <<"7">>) \o <<",">>
                     \o Member(K_tds, <<"3", "2", "0">>) \o <<"}">>,
     frame |-> TRUE, dict |-> <<Item(K_ph, JInt(7)), Item(K_tds, JInt(320))>>]
F_servo ==
    [text |-> <<"{">> \o Member(K_servo, <<"1">>) \o <<"}">>,
     frame |-> TRUE, dict |-> <<Item(K_servo, JInt(1))>>]
F_pumps ==
    [text |-> <<"{">> \o Member(K_pumps, <<"[", "1", ",", " ", "0", "]">>) \o <<",", " ">>
                     \o Member(K_pump2, <<"1">>) \o <<"}">>,
     frame |-> TRUE,
     dict |-> <<Item(K_pumps, JList(<<JInt(1), JInt(0)>>)), Item(K_pump2, JInt(1))>>]
F_long ==
    [text |-> <<"{">> \o Member(K_turbidity, <<"5">>) \o <<",">> \o Rep(" ", LongPad)
                     \o Member(K_system, <<"1">>) \o <<"}">>,
     frame |-> TRUE, dict |-> <<Item(K_turbidity, JInt(5)), Item(K_system, JInt(1))>>]
F_max ==
    [text |-> <<"{">> \o Member(K_tds, <<"9">>) \o Rep(" ", MaxFrameLen - 9) \o <<"}">>,
     frame |-> TRUE, dict |-> <<Item(K_tds, JInt(9))>>]
F_pump1 ==
    [text |-> <<"{">> \o Member(K_pump1, <<"0">>) \o <<"}">>,
     frame |-> TRUE, dict |-> <<Item(K_pump1, JInt(0))>>]
F_turbidity ==
    [text |-> <<"{">> \o Member(K_turbidity, <<"3">>) \o <<"}">>,
     frame |-> TRUE, dict |-> <<Item(K_turbidity, JInt(3))>>]
\* one character too long, a JSON object too short, malformed JSON, a pumps
\* list of one slot, an unrecognised key, text without braces, a stray '}', lone '{'s, noise
X_over ==
    [text |-> <<"{">> \o Member(K_tds, <<"9">>) \o Rep(" ", MaxFrameLen - 8) \o <<"}">>,
     frame |-> FALSE, dict |-> <<>>]
X_short == [text |-> <<"{", "}">>, frame |-> FALSE, dict |-> <<>>]
X_bad ==
    [text |-> <<"{">> \o Member(K_ph, <<>>) \o <<"}">>, frame |-> FALSE, dict |-> <<>>]
X_shape ==
    [text |-> <<"{">> \o Member(K_pumps, <<"[", "1", "]">>) \o <<",">>
                     \o Member(K_pump2, <<"1">>) \o <<",">>
                     \o Member(K_servo, <<"1">>) \o <<"}">>,
     frame |-> FALSE, dict |-> <<>>]
X_other ==
    [text |-> <<"{">> \o Member(<<"r", "s", "s", "i">>, <<"4", "0">>) \o <<"}">>,
     frame |-> FALSE, dict |-> <<>>]
X_text == [text |-> <<"o", "k", NL>>, frame |-> FALSE, dict |-> <<>>]
X_close == [text |-> <<"7", "}", NL>>, frame |-> FALSE, dict |-> <<>>]
X_open == [text |-> Rep("{", BraceRun), frame |-> FALSE, dict |-> <<>>]
X_noise == [text |-> Rep("x", MaxBufferLen + NoiseOver), frame |-> FALSE, dict |-> <<>>]

\* what the device sends in one run: a sequence of messages
DecodeScripts ==
    { <<F_ph>>, <<F_ph, F_ph>>, <<F_spec1, F_servo>>, <<F_pumps, F_ph, F_servo>>,
      <<F_long>>, <<F_long, F_servo>>, <<F_max>>, <<X_over, F_ph>>,
      <<X_short, F_servo>>, <<X_bad, F_ph>>, <<X_shape, F_servo>>,
      <<X_text, F_ph, X_text>>, <<X_close, F_ph>>, <<X_open>>, <<X_noise>>,
      <<X_noise, F_ph>>, <<F_pumps, F_pump1>>, <<X_other, F_ph>>,
      <<F_turbidity, F_long>> }

RECURSIVE WireOf(_)
\* the byte stream of a script
WireOf(sc) == IF sc = <<>> THEN <<>> ELSE Head(sc).text \o WireOf(Tail(sc))

(***************************************************************************)
(* update_status(data): [status, raised].  The assignments happen in the   *)
(* order of the source; a failing item assignment on current_status        *)
(* ['pumps'] raises and leaves the later keys unmerged.                    *)
(***************************************************************************)
\* current_status['pumps'][i] = 1 if v else 0, for the 0-based slot i:
\* [ok, pumps]; not ok where Python raises IndexError or TypeError
SetPumpSlot(pumps, i, v) ==
    IF pumps.t = "list" /\ i < Len(pumps.l)
    THEN [ok |-> TRUE,
          pumps |-> JList([pumps.l EXCEPT ![i + 1] = JInt(IF Truthy(v) THEN 1 ELSE 0)])]
    ELSE [ok |-> FALSE, pumps |-> pumps]

\* MergeKey with a slip: current_status[field] = data.get(key, 0)
MergeKeyDefault(st, data, key, field) ==
    [st EXCEPT ![field] = IF HasKey(data, key) THEN GetKey(data, key) ELSE JInt(0)]

\* if key in data: current_status[field] = data[key]
MergeKey(st, data, key, field) ==
    IF HasKey(data, key) THEN [st EXCEPT ![field] = GetKey(data, key)] ELSE st

\* lines 124-128, after both pump slots were set
MergeServoSystem(st, data) ==
    [status |-> MergeKey(MergeKey(st, data, K_servo, "servo"), data, K_system, "system"),
     raised |-> FALSE]

\* lines 116-122; p is the outcome of the item assignment
MergedPump2(st, data, p) ==
    IF p.ok THEN MergeServoSystem([st EXCEPT !.pumps = p.pumps], data)
    ELSE [status |-> st, raised |-> TRUE]

MergePump2(st, data) ==
    IF HasKey(data, K_pump2)
    THEN MergedPump2(st, data, SetPumpSlot(st.pumps, 1, GetKey(data, K_pump2)))
    ELSE MergeServoSystem(st, data)

\* lines 108-114
MergedPump1(st, data, p) ==
    IF p.ok THEN MergePump2([st EXCEPT !.pumps = p.pumps], data)
    ELSE [status |-> st, raised |-> TRUE]

MergePump1(st, data) ==
    IF HasKey(data, K_pump1)
    THEN MergedPump1(st, data, SetPumpSlot(st.pumps, 0, GetKey(data, K_pump1)))
    ELSE MergePump2(st, data)

\* lines 94-105, then the pump slots
UpdateStatus(st, data) ==
    MergePump1(MergeKey(MergeKey(MergeKey(MergeKey(st, data, K_ph, "ph"),
                                          data, K_turbidity, "turbidity"),
                                 data, K_tds, "tds"),
                        data, K_pumps, "pumps"),
               data)

\* the history entry of one update_status call
MergeEntry(before, data, u) ==
    [data |-> data, before |-> before, after |-> u.status, raised |-> u.raised]

(***************************************************************************)
(* read_and_upload_data: the extraction loop (lines 337-370) on the local  *)
(* state d = [buffer, error_count, status, merges, hung].                  *)
(***************************************************************************)
RECURSIVE ExtractFrames(_)

\* lines 350-354: json.loads returned data; u is what update_status did.
\* An exception of update_status is caught at line 369 and the loop goes on.
FrameMerged(d, data, u) ==
    ExtractFrames([d EXCEPT !.error_count = 0, !.status = u.status,
                            !.merges = Append(@, MergeEntry(d.status, data, u))])

\* lines 356-368: json.loads raised JSONDecodeError
FrameRejected(d, errors) ==
    IF errors % ErrorReportEvery = 0 /\ errors > ErrorClearAbove
    THEN [d EXCEPT !.buffer = <<>>, !.error_count = errors]
    ELSE ExtractFrames([d EXCEPT !.error_count = errors])

\* line 348; parsed is the outcome of json.loads(json_str)
FrameParsed(d, parsed) ==
    IF parsed.ok THEN FrameMerged(d, parsed.dict, UpdateStatus(d.status, parsed.dict))
    ELSE FrameRejected(d, d.error_count + 1)

\* lines 341-348, json_str cut out and the buffer d.buffer[end_idx:]
FrameCut(d, json_str) ==
    IF Len(json_str) < MinFrameLen \/ Len(json_str) > MaxFrameLen
    THEN ExtractFrames(d)
    ELSE FrameParsed(d, JsonLoads(json_str))

\* lines 340-342.  With no '}' after the first '{', end_idx is 0: json_str
\* is '' and buffer[0:] is the buffer itself, so `continue` repeats the
\* same iteration for ever.
FrameAt(d, start_idx, end_idx) ==
    IF end_idx = 0 THEN [d EXCEPT !.hung = TRUE]
    ELSE FrameCut([d EXCEPT !.buffer = SliceFrom(d.buffer, end_idx)],
                  Slice(d.buffer, start_idx, end_idx))

\* FrameFrom with a slip: end_idx = buffer.find('}', start_idx), without + 1
FrameFromNoPlusOne(d, start_idx) ==
    FrameAt(d, start_idx, FindFrom(d.buffer, "}", start_idx))

\* line 339-340
FrameFrom(d, start_idx) ==
    FrameAt(d, start_idx, FindFrom(d.buffer, "}", start_idx) + 1)

\* the while loop of line 337
ExtractFrames(d) ==
    IF Contains(d.buffer, "{") /\ Contains(d.buffer, "}")
    THEN FrameFrom(d, FindFrom(d.buffer, "{", 0))
    ELSE d

\* TrimBuffer with a slip: the oversized buffer is never cut
TrimBufferNever(b) == b

\* lines 372-379: the buffer is cut when it has grown past 500 characters
TrimBuffer(b) ==
    IF Len(b) > MaxBufferLen
    THEN IF ~Contains(b, "{") \/ ~Contains(b, "}") THEN <<>>
         ELSE SliceFrom(b, RFind(b, "{"))
    ELSE b

\* lines 332-334: cut is the buffer from its last '{' on
CorruptCut(cut) == IF Len(cut) > CorruptLen THEN <<>> ELSE cut

\* lines 330-335: an opened frame that does not close within 100 characters
CorruptReset(b) == CorruptCut(SliceFrom(b, RFind(b, "{")))

\* lines 372-379 on the state e the loop ended in
AfterLoop(e) == IF e.hung THEN e ELSE [e EXCEPT !.buffer = TrimBuffer(@)]

\* lines 330-379 on d, whose buffer already holds the new text
DecodeBuffer(d) ==
    IF Contains(d.buffer, "{") /\ ~Contains(d.buffer, "}") /\ Len(d.buffer) > CorruptLen
    THEN [d EXCEPT !.buffer = CorruptReset(@)]
    ELSE AfterLoop(ExtractFrames(d))

\* lines 327-379 for raw_data, the non-empty text of one ser.read
DecodeChunk(d, raw_data) == DecodeBuffer([d EXCEPT !.buffer = @ \o raw_data])

\* the decoder's state as the local record the operators above work on
DecoderState ==
    [buffer |-> buffer, error_count |-> error_count, status |-> current_status,
     merges |-> merges, hung |-> FALSE]

\* read_and_upload_data(ser, upload_interval).  n is ser.in_waiting; the
\* environment may make the availability probe raise (the device went away).
\* the decoder's globals after a call that ended in the local state d
StoreDecoder(d) ==
    /\ buffer' = d.buffer
    /\ error_count' = d.error_count
    /\ current_status' = d.status
    /\ merges' = d.merges
    /\ hung' = d.hung

\* lines 325-379: n characters are waiting and are read
ReadWaiting(n) ==
    /\ wire' = SliceFrom(wire, n)
    /\ one_read' = (wire = WireOf(script) /\ n = Len(wire))
    /\ StoreDecoder(DecodeChunk(DecoderState, SubSeq(wire, 1, n)))

\* read_and_upload_data(ser, upload_interval).  The environment decides how
\* many characters ser.in_waiting reports, and may make the probe raise
\* (the device went away).
ReadAndUploadData ==
    /\ ~hung
    /\ \/ \* line 322: the port is not open; lines 381-384
          /\ ~ser.is_open
          /\ error_count < MaxErrorCount
          /\ error_count' = error_count + 1
          /\ UNCHANGED <<current_status, buffer, ser, wire, merges, one_read, faults, hung>>
       \/ \* ser.in_waiting raises; lines 381-384
          /\ ser.is_open
          /\ faults.stream < MaxFaults
          /\ error_count < MaxErrorCount
          /\ faults' = [faults EXCEPT !.stream = @ + 1]
          /\ error_count' = error_count + 1
          /\ UNCHANGED <<current_status, buffer, ser, wire, merges, one_read, hung>>
       \/ \* n characters waiting (with nothing waiting the call changes nothing)
          /\ ser.is_open
          /\ \E n \in ReadSizes(wire) : ReadWaiting(n)
          /\ UNCHANGED <<ser, faults>>
    /\ UNCHANGED script

(***************************************************************************)
(* send_command_to_arduino(ser, command).  The call is taken in steps:     *)
(* SendBegin runs lines 132-173 (up to the first test of the wait loop),    *)
(* SendPoll one iteration of the wait loop of line 175, SendTimeout the     *)
(* loop's exit when the two seconds are over.                              *)
(***************************************************************************)
\* the list of line 141
ActuatorKeys == <<K_pump1, K_pump2, K_servo, K_system>>
IsActuatorKey(k) == \E i \in 1..Len(ActuatorKeys) : ActuatorKeys[i] = k

\* line 143: 1 if command[key] else 0
Bit(v) == IF Truthy(v) THEN 1 ELSE 0

\* lines 139-144: the recognised keys in the order of the command
FormatKept(kept) == [i \in 1..Len(kept) |-> Item(kept[i].k, JInt(Bit(kept[i].v)))]
FormatCommand(command) == FormatKept(SelectSeq(command, LAMBDA it : IsActuatorKey(it.k)))

DigitChars == <<"0", "1", "2", "3", "4", "5", "6", "7", "8", "9">>
\* json.dumps of an int of one digit
DumpInt(n) == <<DigitChars[n + 1]>>

RECURSIVE DumpItems(_)
\* json.dumps of the items of a dict of ints: "key": value, joined by ', '
DumpItems(d) ==
    IF d = <<>> THEN <<>>
    ELSE <<Q>> \o Head(d).k \o <<Q, ":", " ">> \o DumpInt(Head(d).v.n)
         \o (IF Len(d) > 1 THEN <<",", " ">> ELSE <<>>) \o DumpItems(Tail(d))

\* line 155: json.dumps(formatted_command) + '\n'
CommandJson(formatted) == <<"{">> \o DumpItems(formatted) \o <<"}", NL>>

\* time.sleep(0.5) of line 168, the 2.0 of line 175, time.sleep(0.1) of line 202
SendSettleTicks == TicksPerSecond \div 2
AckWaitTicks == 2 * TicksPerSecond
AckPollTicks == TicksPerSecond \div 10

\* no call of send_command_to_arduino has been made.  command is the
\* argument; ser0, wire0 and status0 are the stream and current_status as
\* the call found them; probes counts the evaluations of ser.in_waiting,
\* reads the calls of ser.read; wrote and flushed are "no", "ok" or "raised";
\* raised says that an exception left the call.
SendIdle ==
    [pc |-> "idle", command |-> <<>>, formatted |-> <<>>, result |-> FALSE,
     raised |-> FALSE, start_time |-> 0, probes |-> 0, reads |-> 0, acks |-> 0,
     wrote |-> "no", flushed |-> "no", probe_raised |-> FALSE,
     response_received |-> FALSE, ser0 |-> OpenSerial, wire0 |-> <<>>,
     status0 |-> InitialStatus]

\* the call as it starts
SendStart(command) ==
    [SendIdle EXCEPT !.command = command, !.formatted = FormatCommand(command),
                     !.ser0 = ser, !.wire0 = wire, !.status0 = current_status]

\* what ser.in_waiting may report for the pending bytes w: nothing, all of
\* them, or a multiple of AckChunk
AckChunk == 5
WaitingSizes(w) == {n \in 0..Len(w) : n = Len(w) \/ n % AckChunk = 0}

\* NotOpen with a slip: the test of line 134 is missing
NotOpenNever(s) == FALSE

\* line 134: not ser.is_open
NotOpen(s) == ~s.is_open

\* Rejects with a slip: the test of line 147 is missing
RejectsNever(formatted) == FALSE

\* line 147: not formatted_command
Rejects(formatted) == formatted = <<>>

\* a return of the call with result r: the with block of line 132 is left
SendReturns(s, r) ==
    /\ send' = [s EXCEPT !.pc = "done", !.result = r]
    /\ serial_lock' = "free"
    /\ UNCHANGED status_lock

\* lines 134-136
SendNotOpen(s) ==
    /\ NotOpen(ser)
    /\ SendReturns(s, FALSE)
    /\ UNCHANGED <<decodeVars, now>>

\* lines 147-149
SendRejected(s) ==
    /\ ~NotOpen(ser)
    /\ Rejects(s.formatted)
    /\ SendReturns(s, FALSE)
    /\ UNCHANGED <<decodeVars, now>>

\* ser.in_waiting of line 159 raises: lines 208-212
SendDrainRaises(s) ==
    /\ ~NotOpen(ser)
    /\ ~Rejects(s.formatted)
    /\ faults.stream < MaxFaults
    /\ faults' = [faults EXCEPT !.stream = @ + 1]
    /\ SendReturns([s EXCEPT !.probes = 1, !.probe_raised = TRUE], FALSE)
    /\ UNCHANGED <<current_status, buffer, error_count, ser, wire, script, merges,
                   one_read, hung, now>>

\* the call after lines 159-160 found n characters waiting
Drained(s, n) ==
    [s EXCEPT !.probes = IF n = 0 THEN 1 ELSE 2, !.reads = IF n = 0 THEN 0 ELSE 1]

\* lines 159-160, then ser.write of line 163 raises: lines 208-212
SendWriteRaises(s, n) ==
    /\ ~NotOpen(ser)
    /\ ~Rejects(s.formatted)
    /\ faults.stream < MaxFaults
    /\ faults' = [faults EXCEPT !.stream = @ + 1]
    /\ wire' = SliceFrom(wire, n)
    /\ SendReturns([Drained(s, n) EXCEPT !.wrote = "raised"], FALSE)
    /\ UNCHANGED <<current_status, buffer, error_count, ser, script, merges,
                   one_read, hung, now>>

\* lines 159-163, then ser.flush of line 164 raises: lines 208-212
SendFlushRaises(s, n) ==
    /\ ~NotOpen(ser)
    /\ ~Rejects(s.formatted)
    /\ faults.stream < MaxFaults
    /\ faults' = [faults EXCEPT !.stream = @ + 1]
    /\ wire' = SliceFrom(wire, n)
    /\ ser' = [ser EXCEPT !.written = @ \o CommandJson(s.formatted)]
    /\ SendReturns([Drained(s, n) EXCEPT !.wrote = "ok", !.flushed = "raised"], FALSE)
    /\ UNCHANGED <<current_status, buffer, error_count, script, merges,
                   one_read, hung, now>>

\* lines 159-173: drained, written, flushed, slept, start_time taken
SendWritten(s, n) ==
    /\ ~NotOpen(ser)
    /\ ~Rejects(s.formatted)
    /\ wire' = SliceFrom(wire, n)
    /\ ser' = [ser EXCEPT !.written = @ \o CommandJson(s.formatted),
                          !.flushes = @ + 1]
    /\ now' = now + SendSettleTicks
    /\ send' = [Drained(s, n) EXCEPT !.pc = "wait", !.wrote = "ok", !.flushed = "ok",
                                     !.start_time = now + SendSettleTicks]
    /\ serial_lock' = "send"
    /\ UNCHANGED status_lock
    /\ UNCHANGED <<current_status, buffer, error_count, script, merges,
                   one_read, faults, hung>>

\* send_command_to_arduino(ser, command) up to the wait loop
SendBegin(command) ==
    /\ send.pc # "wait"
    /\ serial_lock = "free"
    /\ \/ SendNotOpen(SendStart(command))
       \/ SendRejected(SendStart(command))
       \/ SendDrainRaises(SendStart(command))
       \/ \E n \in WaitingSizes(wire) :
             \/ SendWriteRaises(SendStart(command), n)
             \/ SendFlushRaises(SendStart(command), n)
             \/ SendWritten(SendStart(command), n)

\* lines 188-194: json.loads returned data and u is what update_status did;
\* an exception of update_status is caught at line 199, without the break
AckMerged(st, mg, data, u) ==
    [status |-> u.status, merges |-> Append(mg, MergeEntry(st, data, u)),
     received |-> TRUE, stop |-> ~u.raised]

\* lines 187-196; parsed is the outcome of json.loads(json_str)
AckParsed(st, mg, parsed) ==
    IF parsed.ok THEN AckMerged(st, mg, parsed.dict, UpdateStatus(st, parsed.dict))
    ELSE [status |-> st, merges |-> mg, received |-> FALSE, stop |-> FALSE]

\* lines 183-185: raw_data[start_idx:end_idx]
AckText(raw_data, start_idx) ==
    Slice(raw_data, start_idx, FindFrom(raw_data, "}", start_idx) + 1)

\* lines 182-198 on the text of one read
AckRead(st, mg, raw_data) ==
    IF Contains(raw_data, "{") /\ Contains(raw_data, "}")
    THEN AckParsed(st, mg, JsonLoads(AckText(raw_data, FindFrom(raw_data, "{", 0))))
    ELSE [status |-> st, merges |-> mg, received |-> FALSE, stop |-> FALSE]

\* ser.in_waiting of line 176 raises: it is outside the try of line 177,
\* so lines 208-212 return False
SendPollRaises ==
    /\ faults.stream < MaxFaults
    /\ faults' = [faults EXCEPT !.stream = @ + 1]
    /\ SendReturns([send EXCEPT !.probes = @ + 1, !.probe_raised = TRUE], FALSE)
    /\ UNCHANGED <<current_status, buffer, error_count, ser, wire, script, merges,
                   one_read, hung, now>>

\* nothing is waiting: line 202
SendPollNothing ==
    /\ now' = now + AckPollTicks
    /\ send' = [send EXCEPT !.probes = @ + 1]
    /\ UNCHANGED <<decodeVars, serial_lock, status_lock>>

\* ser.read of line 178 raises: lines 199-202
SendPollReadRaises ==
    /\ wire # <<>>
    /\ faults.stream < MaxFaults
    /\ faults' = [faults EXCEPT !.stream = @ + 1]
    /\ now' = now + AckPollTicks
    /\ send' = [send EXCEPT !.probes = @ + 2]
    /\ UNCHANGED <<current_status, buffer, error_count, ser, wire, script, merges,
                   one_read, hung, serial_lock, status_lock>>

\* lines 178-202 ended in a: break and return True, or sleep and go on
SendPollDone(s, a) ==
    /\ current_status' = a.status
    /\ merges' = a.merges
    /\ IF a.stop
       THEN SendReturns([s EXCEPT !.response_received = TRUE], TRUE) /\ now' = now
       ELSE /\ send' = [s EXCEPT !.response_received = @ \/ a.received]
            /\ now' = now + AckPollTicks
            /\ UNCHANGED <<serial_lock, status_lock>>

\* n > 0 characters are waiting and are read
SendPollRead(n) ==
    /\ n > 0
    /\ wire' = SliceFrom(wire, n)
    /\ SendPollDone([send EXCEPT !.probes = @ + 2, !.reads = @ + 1, !.acks = @ + 1],
                    AckRead(current_status, merges, SubSeq(wire, 1, n)))
    /\ UNCHANGED <<buffer, error_count, ser, script, one_read, faults, hung>>

\* one iteration of the wait loop of line 175
SendPoll ==
    /\ send.pc = "wait"
    /\ now - send.start_time < AckWaitTicks
    /\ \/ SendPollRaises
       \/ SendPollNothing
       \/ SendPollReadRaises
       \/ \E n \in WaitingSizes(wire) : SendPollRead(n)

\* the test of line 175 fails: lines 204-207
SendTimeout ==
    /\ send.pc = "wait"
    /\ now - send.start_time >= AckWaitTicks
    /\ SendReturns(send, TRUE)
    /\ UNCHANGED <<decodeVars, now>>

\* the wait loop, whoever called send_command_to_arduino
SendPollStep == SendPoll /\ UNCHANGED callerVars
SendTimeoutStep == SendTimeout /\ UNCHANGED callerVars

(***************************************************************************)
(* The reconciler: process_control_values (called by the main loop) and    *)
(* control_listener.  A cache previous_control is a dict over the four     *)
(* actuator keys.                                                          *)
(***************************************************************************)
K_last_updated == <<"l", "a", "s", "t", "_", "u", "p", "d", "a", "t", "e", "d">>

\* lines 586-592 and lines 220-225
UnsetCache ==
    <<Item(K_pump1, JNull), Item(K_pump2, JNull), Item(K_servo, JNull),
      Item(K_system, JNull)>>
ZeroCache ==
    <<Item(K_pump1, JInt(0)), Item(K_pump2, JInt(0)), Item(K_servo, JInt(0)),
      Item(K_system, JInt(0))>>

\* datetime.now().strftime("%Y-%m-%d %H:%M:%S"): the text names the second
Stamp(t) == JInt(t \div TicksPerSecond)

\* int(v): [ok, n]; not ok where Python raises ValueError or TypeError.
\* A str converts when it is made of digits.
DigitsOnly(s) == s # <<>> /\ \A i \in 1..Len(s) : s[i] \in Digits
IntOf(v) ==
    CASE v.t \in {"int", "bool"} -> [ok |-> TRUE, n |-> v.n]
      [] v.t = "str" /\ DigitsOnly(v.s) -> [ok |-> TRUE, n |-> ScanDigits(v.s, 1, 0).val.n]
      [] OTHER -> [ok |-> FALSE, n |-> 0]

\* 1 if int(v) else 0, for the outcome i of int(v)
BitOfInt(i) == [ok |-> i.ok, value |-> JInt(IF i.ok /\ i.n # 0 THEN 1 ELSE 0)]

\* lines 601-607 and lines 266-269: None is 0, anything else 1 if int(v) else 0
Coerce(v) == IF v.t = "null" THEN [ok |-> TRUE, value |-> JInt(0)] ELSE BitOfInt(IntOf(v))

\* Python's a == b: an int and a bool compare as numbers
PyEq(a, b) ==
    IF a.t \in {"int", "bool"} /\ b.t \in {"int", "bool"} THEN a.n = b.n ELSE a = b

\* Forward with a slip: the value is put in the command, not in the cache
ForwardUncommitted(r, key, value) ==
    [r EXCEPT !.command = Append(@, Item(key, value))]

\* previous_control[key] = value; command[key] = value
Forward(r, key, value) ==
    [r EXCEPT !.cache = PutKey(@, key, value), !.command = Append(@, Item(key, value))]

\* the loop state before the first key
ScanStart(cache) == [cache |-> cache, command |-> <<>>, raised |-> FALSE]

\* lines 609-619 for one key; c is the outcome of the conversion
CombinedCoerced(r, key, c) ==
    IF c.ok
    THEN IF GetKey(r.cache, key).t = "null" \/ ~PyEq(c.value, GetKey(r.cache, key))
         THEN Forward(r, key, c.value)
         ELSE r
    ELSE IF GetKey(r.cache, key).t = "null"
         THEN [r EXCEPT !.cache = PutKey(@, key, JInt(0))]
         ELSE r

\* lines 599-619 for one key
CombinedKey(r, doc, key) ==
    IF HasKey(doc, key) THEN CombinedCoerced(r, key, Coerce(GetKey(doc, key))) ELSE r

\* the loop of line 598
CombinedScan(cache, doc) ==
    CombinedKey(CombinedKey(CombinedKey(CombinedKey(ScanStart(cache),
        doc, K_pump1), doc, K_pump2), doc, K_servo), doc, K_system)

\* lines 266-275 for one key; an exception of int() leaves the loop
ListenerCoerced(r, key, c) ==
    IF ~c.ok THEN [r EXCEPT !.raised = TRUE]
    ELSE IF ~PyEq(c.value, GetKey(r.cache, key)) THEN Forward(r, key, c.value)
    ELSE r

\* lines 265-275 for one key
ListenerKey(r, doc, key) ==
    IF r.raised \/ ~HasKey(doc, key) THEN r
    ELSE ListenerCoerced(r, key, Coerce(GetKey(doc, key)))

\* the loop of line 264
ListenerScan(cache, doc) ==
    ListenerKey(ListenerKey(ListenerKey(ListenerKey(ScanStart(cache),
        doc, K_pump1), doc, K_pump2), doc, K_servo), doc, K_system)

\* lines 236-238 for one key: the value is stored and sent as it is
StartupKey(r, doc, key) ==
    IF HasKey(doc, key) THEN Forward(r, key, GetKey(doc, key)) ELSE r

\* the loop of line 235
StartupScan(cache, doc) ==
    StartupKey(StartupKey(StartupKey(StartupKey(ScanStart(cache),
        doc, K_pump1), doc, K_pump2), doc, K_servo), doc, K_system)

\* current_status['pumps'][i] of lines 295 and 297 raises
SlotRaises(pumps, i) ==
    CASE pumps.t = "list" -> Len(pumps.l) <= i
      [] pumps.t = "str" -> Len(pumps.s) <= i
      [] OTHER -> TRUE

\* len(current_status['pumps']) of lines 642 and 646 raises
LenRaises(pumps) == pumps.t \notin {"list", "str"}

\* the status report of lines 291-301 raises
ListenerReportRaises(command, st) ==
    \/ HasKey(command, K_pump1) /\ SlotRaises(st.pumps, 0)
    \/ HasKey(command, K_pump2) /\ SlotRaises(st.pumps, 1)

\* the status report of lines 639-654 raises
CombinedReportRaises(command, st) ==
    (HasKey(command, K_pump1) \/ HasKey(command, K_pump2)) /\ LenRaises(st.pumps)

RECURSIVE UpdateDoc(_, _)
\* control_ref.update(updates) on the document doc
UpdateDoc(doc, updates) ==
    IF updates = <<>> THEN doc
    ELSE UpdateDoc(PutKey(doc, Head(updates).k, Head(updates).v), Tail(updates))

\* lines 661-665: last_updated, then every key of the command
WriteBack(command, t) == <<Item(K_last_updated, Stamp(t))>> \o command

\* what the dashboard does before a poll: it sets the document, or nothing
Sets(doc) == [same |-> FALSE, doc |-> doc]
Same == [same |-> TRUE, doc |-> <<>>]
\* what control_ref.get() returns at the coming poll
Polled == IF Head(plan).same THEN remote ELSE Head(plan).doc

\* the history entry of a cycle: kind is "combined", "startup" or "poll"
CycleEntry(kind, doc, before, r) ==
    [kind |-> kind, doc |-> doc, before |-> before, after |-> r.cache,
     command |-> IF r.raised THEN <<>> ELSE r.command, aborted |-> r.raised]

\* main() is not running; otherwise its locals as lines 485-489 set them at
\* time t; last_attempt is history: the time the last upload was begun, if any
MainOff ==
    [pc |-> "off", started |-> 0, current_time |-> 0, serial_errors |-> 0,
     last_reset_time |-> 0, last_firebase_update |-> 0, last_sensor_upload |-> 0,
     last_control_sync |-> 0, iterations |-> 0, last_attempt |-> <<>>]
MainStart(t) ==
    [pc |-> "top", started |-> t, current_time |-> t, serial_errors |-> 0,
     last_reset_time |-> t, last_firebase_update |-> t, last_sensor_upload |-> t,
     last_control_sync |-> t, iterations |-> 0, last_attempt |-> <<>>]

\* raised: an exception left the last call of process_control_values
ReconIdle == [pc |-> "idle", command |-> <<>>, raised |-> FALSE]
ListenerOff == [pc |-> "off", previous_control |-> ZeroCache, command |-> <<>>]

\* no caller is running
InitNoCaller ==
    /\ remote = <<>>
    /\ plan = <<>>
    /\ previous_control = UnsetCache
    /\ recon = ReconIdle
    /\ listener = ListenerOff
    /\ cycles = <<>>
    /\ main = MainOff
    /\ store_up = TRUE
    /\ sensor_db = <<>>
    /\ resets = <<>>
    /\ stalls = 0
    /\ running = TRUE

\* process_control_values(ser, current_values) up to the wait loop of the
\* send; r is the outcome of the loop of line 598
ProcessControlValues(doc, r) ==
    /\ previous_control' = r.cache
    /\ cycles' = Append(cycles, CycleEntry("combined", doc, previous_control, r))
    /\ IF r.command # <<>>
       THEN /\ SendBegin(r.command)
            /\ recon' = [pc |-> "send", command |-> r.command, raised |-> FALSE]
       ELSE /\ recon' = ReconIdle
            /\ UNCHANGED <<decodeVars, sendVars>>

\* lines 559-566 of main: the document is read and, unless it is empty,
\* handed to process_control_values
CombinedPoll ==
    /\ listener.pc = "off"
    /\ recon.pc = "idle"
    /\ send.pc # "wait"
    /\ plan # <<>>
    /\ plan' = Tail(plan)
    /\ remote' = Polled
    /\ IF Polled = <<>>
       THEN UNCHANGED <<decodeVars, sendVars, previous_control, recon, cycles>>
       ELSE ProcessControlValues(Polled, CombinedScan(previous_control, Polled))
    /\ UNCHANGED <<listener, mainVars>>

\* lines 633-667: the send has returned
CombinedAfterSend ==
    /\ recon.pc = "send"
    /\ send.pc = "done"
    /\ now' = now + SendSettleTicks
    /\ \/ \* the status report raises
          /\ CombinedReportRaises(recon.command, current_status)
          /\ recon' = [ReconIdle EXCEPT !.raised = TRUE]
          /\ UNCHANGED <<remote, faults>>
       \/ \* control_ref.update raises
          /\ ~CombinedReportRaises(recon.command, current_status)
          /\ faults.store < MaxFaults
          /\ faults' = [faults EXCEPT !.store = @ + 1]
          /\ recon' = [ReconIdle EXCEPT !.raised = TRUE]
          /\ UNCHANGED remote
       \/ /\ ~CombinedReportRaises(recon.command, current_status)
          /\ remote' = UpdateDoc(remote, WriteBack(recon.command, now + SendSettleTicks))
          /\ recon' = ReconIdle
          /\ UNCHANGED faults
    /\ UNCHANGED <<current_status, buffer, error_count, ser, wire, script, merges,
                   one_read, hung, serial_lock, status_lock, send, plan, previous_control,
                   listener, cycles, mainVars>>

\* time.sleep(2) of line 252, time.sleep(5) of line 310
ListenerPollTicks == 2 * TicksPerSecond
ListenerErrorTicks == 5 * TicksPerSecond

\* lines 229-244 of control_listener; r is the outcome of the loop of line 235
ListenerInitial(doc, r) ==
    /\ cycles' = Append(cycles, CycleEntry("startup", doc, listener.previous_control, r))
    /\ IF r.command # <<>>
       THEN /\ SendBegin(r.command)
            /\ listener' = [pc |-> "startup_send", previous_control |-> r.cache,
                            command |-> r.command]
       ELSE /\ listener' = [listener EXCEPT !.pc = "sleep"]
            /\ UNCHANGED <<decodeVars, sendVars>>

\* control_listener up to line 246
ListenerStartup ==
    /\ listener.pc = "startup"
    /\ plan # <<>>
    /\ plan' = Tail(plan)
    /\ remote' = Polled
    /\ \/ \* control_ref.get() raises: line 243
          /\ faults.store < MaxFaults
          /\ faults' = [faults EXCEPT !.store = @ + 1]
          /\ listener' = [listener EXCEPT !.pc = "sleep"]
          /\ UNCHANGED <<current_status, buffer, error_count, ser, wire, script, merges,
                         one_read, hung, sendVars, cycles>>
       \/ /\ Polled = <<>>
          /\ listener' = [listener EXCEPT !.pc = "sleep"]
          /\ UNCHANGED <<decodeVars, sendVars, cycles>>
       \/ /\ Polled # <<>>
          /\ ListenerInitial(Polled, StartupScan(listener.previous_control, Polled))
    /\ UNCHANGED <<previous_control, recon, mainVars>>

\* the send of line 242 has returned
ListenerStarted ==
    /\ listener.pc = "startup_send"
    /\ send.pc = "done"
    /\ listener' = [listener EXCEPT !.pc = "sleep"]
    /\ UNCHANGED <<decodeVars, sendVars, remote, plan, previous_control, recon, cycles,
                   mainVars>>

\* lines 249-252
ListenerSleep ==
    /\ listener.pc = "sleep"
    /\ running
    /\ plan # <<>>
    /\ now' = now + ListenerPollTicks
    /\ listener' = [listener EXCEPT !.pc = "poll"]
    /\ UNCHANGED <<decodeVars, serial_lock, status_lock, send, remote, plan, previous_control,
                   recon, cycles, mainVars>>

\* lines 259-285; r is the outcome of the loop of line 264
ListenerCycle(doc, r) ==
    /\ cycles' = Append(cycles, CycleEntry("poll", doc, listener.previous_control, r))
    /\ IF r.raised
       THEN \* line 307: the cache keeps what the loop stored, nothing is sent
            /\ listener' = [listener EXCEPT !.pc = "sleep", !.previous_control = r.cache]
            /\ now' = now + ListenerErrorTicks
            /\ UNCHANGED <<decodeVars, serial_lock, status_lock, send>>
       ELSE IF r.command # <<>>
       THEN /\ SendBegin(r.command)
            /\ listener' = [pc |-> "poll_send", previous_control |-> r.cache,
                            command |-> r.command]
       ELSE /\ listener' = [listener EXCEPT !.pc = "sleep"]
            /\ UNCHANGED <<decodeVars, sendVars>>

\* lines 254-285 of one iteration of the polling loop
ListenerPoll ==
    /\ listener.pc = "poll"
    /\ plan # <<>>
    /\ plan' = Tail(plan)
    /\ remote' = Polled
    /\ \/ \* control_ref.get() raises: lines 307-310
          /\ faults.store < MaxFaults
          /\ faults' = [faults EXCEPT !.store = @ + 1]
          /\ now' = now + ListenerErrorTicks
          /\ listener' = [listener EXCEPT !.pc = "sleep"]
          /\ UNCHANGED <<current_status, buffer, error_count, ser, wire, script, merges,
                         one_read, hung, serial_lock, status_lock, send, cycles>>
       \/ /\ Polled = <<>>
          /\ listener' = [listener EXCEPT !.pc = "sleep"]
          /\ UNCHANGED <<decodeVars, sendVars, cycles>>
       \/ /\ Polled # <<>>
          /\ ListenerCycle(Polled, ListenerScan(listener.previous_control, Polled))
    /\ UNCHANGED <<previous_control, recon, mainVars>>

\* lines 285-310: the send of line 284 has returned
ListenerAfterSend ==
    /\ listener.pc = "poll_send"
    /\ send.pc = "done"
    /\ listener' = [listener EXCEPT !.pc = "sleep"]
    /\ \/ \* the status report raises: lines 307-310
          /\ ListenerReportRaises(listener.command, current_status)
          /\ now' = now + SendSettleTicks + ListenerErrorTicks
          /\ UNCHANGED <<remote, faults>>
       \/ \* control_ref.update raises: lines 307-310
          /\ ~ListenerReportRaises(listener.command, current_status)
          /\ faults.store < MaxFaults
          /\ faults' = [faults EXCEPT !.store = @ + 1]
          /\ now' = now + SendSettleTicks + ListenerErrorTicks
          /\ UNCHANGED remote
       \/ /\ ~ListenerReportRaises(listener.command, current_status)
          /\ now' = now + SendSettleTicks
          /\ remote' = PutKey(remote, K_last_updated, Stamp(now + SendSettleTicks))
          /\ UNCHANGED faults
    /\ UNCHANGED <<current_status, buffer, error_count, ser, wire, script, merges,
                   one_read, hung, serial_lock, status_lock, send, plan, previous_control,
                   recon, cycles, mainVars>>

(***************************************************************************)
(* main(): the loop of lines 493-575.  One iteration is taken in steps:     *)
(* MainTop runs lines 496-504 (the reset of the stream), MainRead line 509, *)
(* MainUpload lines 512-554, MainPoll lines 557-568 up to the wait loop of  *)
(* a send, MainSleep the rest of the iteration and line 571.  A call of    *)
(* the remote store that fails returns at once or after a timeout.         *)
(***************************************************************************)
\* line 497: more than 100 errors; line 497: 60 seconds
ResetErrorLimit == 100
ResetCooldownTicks == 60 * TicksPerSecond
\* lines 452 and 459
ResetCloseTicks == TicksPerSecond
ResetOpenTicks == 2 * TicksPerSecond
\* lines 512, 533, 557 and 571
UploadPeriodTicks == TicksPerSecond
SyncPeriodTicks == 5 * TicksPerSecond
PollPeriodTicks == 2 * TicksPerSecond
MainSleepTicks == TicksPerSecond \div 20

\* the iterations of the main loop, the calls of reset_serial_port and the
\* timeouts of the remote store in one run
MaxIterations == 230
MaxResets == 3
MaxStalls == 2
\* a timeout of the remote store outlasts the cooldown
StallTicks == ResetCooldownTicks + 1

\* the condition of line 497 with the cooldown left out
ResetDueNoCooldown(serial_errors, current_time, last_reset_time) ==
    serial_errors > ResetErrorLimit
\* the condition of line 497
ResetDue(serial_errors, current_time, last_reset_time) ==
    /\ serial_errors > ResetErrorLimit
    /\ current_time - last_reset_time > ResetCooldownTicks

\* lines 499-504: reset_serial_port has returned ok
MainReset(ok) ==
    /\ resets' = Append(resets,
           [at |-> now, errors |-> main.serial_errors, ok |-> ok,
            after |-> IF ok THEN 0 ELSE main.serial_errors])
    /\ main' = [main EXCEPT !.pc = "read", !.current_time = now,
                            !.serial_errors = IF ok THEN 0 ELSE @,
                            !.last_reset_time = IF ok THEN now ELSE @]

\* reset_serial_port(ser), lines 445-464, as main calls it
ResetSerialPort ==
    \/ \* line 447: the port is not open
       /\ ~ser.is_open
       /\ MainReset(FALSE)
       /\ UNCHANGED <<ser, now, faults>>
    \/ \* ser.close() raises
       /\ ser.is_open
       /\ faults.port < MaxFaults
       /\ faults' = [faults EXCEPT !.port = @ + 1]
       /\ MainReset(FALSE)
       /\ UNCHANGED <<ser, now>>
    \/ \* ser.open() raises: the port stays closed
       /\ ser.is_open
       /\ faults.port < MaxFaults
       /\ faults' = [faults EXCEPT !.port = @ + 1]
       /\ ser' = [ser EXCEPT !.is_open = FALSE]
       /\ now' = now + ResetCloseTicks
       /\ MainReset(FALSE)
    \/ \* closed, reopened
       /\ ser.is_open
       /\ now' = now + ResetCloseTicks + ResetOpenTicks
       /\ MainReset(TRUE)
       /\ UNCHANGED <<ser, faults>>

\* lines 496-504
MainTop ==
    /\ main.pc = "top"
    /\ running
    /\ ~hung
    /\ main.iterations < MaxIterations
    /\ Len(resets) < MaxResets
    /\ IF ResetDue(main.serial_errors, now, main.last_reset_time)
       THEN ResetSerialPort
       ELSE /\ main' = [main EXCEPT !.pc = "read", !.current_time = now]
            /\ UNCHANGED <<ser, now, faults, resets>>
    /\ UNCHANGED <<current_status, buffer, error_count, wire, script, merges, one_read,
                   hung, serial_lock, status_lock, send, reconVars, store_up, sensor_db, stalls,
                   running>>

\* line 509: read_and_upload_data never raises
MainRead ==
    /\ main.pc = "read"
    /\ \/ ReadAndUploadData
       \/ \* nothing is waiting
          /\ ~hung
          /\ ser.is_open
          /\ wire = <<>>
          /\ UNCHANGED decodeVars
       \/ \* the port is not open, error_count is not counted further
          /\ ~hung
          /\ ~ser.is_open
          /\ error_count >= MaxErrorCount
          /\ UNCHANGED decodeVars
    /\ main' = [main EXCEPT !.pc = "upload"]
    /\ UNCHANGED <<sendVars, reconVars, store_up, sensor_db, resets, stalls, running>>

\* lines 515-519
SensorData(st) == <<Item(K_ph, st.ph), Item(K_tds, st.tds), Item(K_turbidity, st.turbidity)>>
\* line 522: the timestamp key has the resolution of a second
TimestampKey(t) == t \div TicksPerSecond
\* current_status['pumps'][i]
Slot(pumps, i) == IF pumps.t = "list" THEN pumps.l[i + 1] ELSE JStr(<<pumps.s[i + 1]>>)
\* line 528 raises
StatesLineRaises(st) == SlotRaises(st.pumps, 0) \/ SlotRaises(st.pumps, 1)
\* lines 537-543
ControlUpdates(st, t) ==
    <<Item(K_pump1, Slot(st.pumps, 0)), Item(K_pump2, Slot(st.pumps, 1)),
      Item(K_servo, st.servo), Item(K_system, st.system), Item(K_last_updated, Stamp(t))>>

\* a call of the remote store fails: at once, or after a timeout
StoreCallFails ==
    \E d \in (IF stalls < MaxStalls THEN {0, StallTicks} ELSE {0}) :
        /\ now' = now + d
        /\ stalls' = IF d > 0 THEN stalls + 1 ELSE stalls

\* lines 512-554
MainUpload ==
    /\ main.pc = "upload"
    /\ ~hung
    /\ IF main.current_time - main.last_sensor_upload < UploadPeriodTicks
       THEN /\ main' = [main EXCEPT !.pc = "poll"]
            /\ UNCHANGED <<now, stalls, sensor_db, remote>>
       ELSE \/ \* line 524 raises: line 553
               /\ ~store_up
               /\ StoreCallFails
               /\ main' = [main EXCEPT !.pc = "poll", !.serial_errors = @ + 1,
                                       !.last_attempt = <<now>>]
               /\ UNCHANGED <<sensor_db, remote>>
            \/ /\ store_up
               /\ sensor_db' = PutKey(sensor_db, TimestampKey(now), SensorData(current_status))
               /\ UNCHANGED <<now, stalls>>
               /\ IF StatesLineRaises(current_status)
                  THEN \* line 528 raises: line 553
                       /\ main' = [main EXCEPT !.pc = "poll", !.serial_errors = @ + 1,
                                               !.last_attempt = <<now>>]
                       /\ UNCHANGED remote
                  ELSE IF main.current_time - main.last_control_sync >= SyncPeriodTicks
                       THEN /\ remote' = UpdateDoc(remote, ControlUpdates(current_status, now))
                            /\ main' = [main EXCEPT !.pc = "poll",
                                            !.last_sensor_upload = main.current_time,
                                            !.last_control_sync = main.current_time,
                                            !.last_attempt = <<now>>]
                       ELSE /\ main' = [main EXCEPT !.pc = "poll",
                                            !.last_sensor_upload = main.current_time,
                                            !.last_attempt = <<now>>]
                            /\ UNCHANGED remote
    /\ UNCHANGED <<decodeVars, serial_lock, status_lock, send, plan, previous_control, recon, listener,
                   cycles, store_up, resets, running>>

\* control_ref.get() of line 560
PolledMain == IF plan = <<>> THEN remote ELSE Polled

\* lines 562-564 on a document that is not empty; r the outcome of the loop
\* of line 598
MainProcess(doc, r) ==
    /\ ProcessControlValues(doc, r)
    /\ main' = IF r.command # <<>>
               THEN [main EXCEPT !.pc = "polling"]
               ELSE [main EXCEPT !.pc = "sleep", !.last_firebase_update = main.current_time]

\* lines 557-568, up to the wait loop of a send
MainPoll ==
    /\ main.pc = "poll"
    /\ ~hung
    /\ recon.pc = "idle"
    /\ send.pc # "wait"
    /\ IF main.current_time - main.last_firebase_update < PollPeriodTicks
       THEN /\ main' = [main EXCEPT !.pc = "sleep"]
            /\ UNCHANGED <<decodeVars, sendVars, remote, plan, previous_control, recon,
                           cycles, stalls>>
       ELSE \/ \* line 560 raises: line 568
               /\ ~store_up
               /\ StoreCallFails
               /\ main' = [main EXCEPT !.pc = "sleep"]
               /\ UNCHANGED <<decodeVars, serial_lock, status_lock, send, remote, plan,
                              previous_control, recon, cycles>>
            \/ /\ store_up
               /\ plan' = IF plan = <<>> THEN plan ELSE Tail(plan)
               /\ remote' = PolledMain
               /\ UNCHANGED stalls
               /\ IF PolledMain = <<>>
                  THEN /\ main' = [main EXCEPT !.pc = "sleep",
                                       !.last_firebase_update = main.current_time]
                       /\ UNCHANGED <<decodeVars, sendVars, previous_control, recon, cycles>>
                  ELSE MainProcess(PolledMain, CombinedScan(previous_control, PolledMain))
    /\ UNCHANGED <<listener, store_up, sensor_db, resets, running>>

\* line 566 once process_control_values has returned, then line 571
MainSleep ==
    /\ ~hung
    /\ \/ main.pc = "sleep"
       \/ main.pc = "polling" /\ recon.pc = "idle"
    /\ main' = [main EXCEPT !.pc = "top", !.iterations = @ + 1,
                    !.last_firebase_update =
                        IF main.pc = "polling" /\ ~recon.raised
                        THEN main.current_time ELSE @]
    /\ now' = now + MainSleepTicks
    /\ UNCHANGED <<decodeVars, serial_lock, status_lock, send, reconVars, store_up, sensor_db,
                   resets, stalls, running>>

\* line 493: the flag is down at the top of the loop, main leaves it
MainExit ==
    /\ main.pc = "top"
    /\ ~hung
    /\ ~running
    /\ main' = [main EXCEPT !.pc = "exit"]
    /\ UNCHANGED <<decodeVars, sendVars, reconVars, store_up, sensor_db, resets, stalls,
                   running>>

\* line 249: the flag is down at the top of the loop, control_listener returns
ListenerExit ==
    /\ listener.pc = "sleep"
    /\ ~running
    /\ listener' = [listener EXCEPT !.pc = "exit"]
    /\ UNCHANGED <<decodeVars, sendVars, remote, plan, previous_control, recon, cycles,
                   mainVars>>

\* signal_handler(sig, frame), lines 35-42
SignalHandler ==
    /\ running
    /\ running' = FALSE
    /\ UNCHANGED <<decodeVars, sendVars, reconVars, main, store_up, sensor_db, resets,
                   stalls>>

(***************************************************************************)
(* SpecDecode: the device sends one script; the bridge keeps calling       *)
(* read_and_upload_data on an open port.                                   *)
(***************************************************************************)
InitDecode ==
    /\ current_status = InitialStatus
    /\ buffer = <<>>
    /\ error_count = 0
    /\ ser \in {OpenSerial, [OpenSerial EXCEPT !.is_open = FALSE]}
    /\ script \in DecodeScripts
    /\ wire = WireOf(script)
    /\ merges = <<>>
    /\ one_read = FALSE
    /\ faults = [stream |-> 0, store |-> 0, port |-> 0]
    /\ hung = FALSE
    /\ now = 0
    /\ serial_lock = "free"
    /\ status_lock = "free"
    /\ send = SendIdle
    /\ InitNoCaller

DecodeStep == ReadAndUploadData /\ UNCHANGED <<sendVars, callerVars>>

NextDecode == DecodeStep

SpecDecode == InitDecode /\ [][NextDecode]_vars
(***************************************************************************)
(* SpecSend: one call of send_command_to_arduino, on a stream that is open *)
(* or closed, with a device that sends one script: what it sent before the *)
(* call is waiting as stale input, the rest arrives during the wait.       *)
(***************************************************************************)
K_foo == <<"f", "o", "o">>
C_empty == <<>>
C_foo == <<Item(K_foo, JInt(1))>>
C_pump1 == <<Item(K_pump1, JInt(1))>>
C_mixed == <<Item(K_pump1, JInt(1)), Item(K_foo, JInt(3)), Item(K_servo, JStr(<<"0">>))>>
C_odd == <<Item(K_system, JNull), Item(K_pump2, JList(<<JInt(0)>>))>>
SendCommands == {C_empty, C_foo, C_pump1, C_mixed, C_odd}

SendScripts ==
    { <<>>, <<F_servo>>, <<X_bad>>, <<X_text>>, <<X_text, F_servo>>, <<X_shape>>,
      <<F_pumps, F_pump1>>, <<X_close, F_ph>> }

InitSend ==
    /\ current_status = InitialStatus
    /\ buffer = <<>>
    /\ error_count = 0
    /\ ser \in {OpenSerial, [OpenSerial EXCEPT !.is_open = FALSE]}
    /\ script \in SendScripts
    /\ wire = WireOf(script)
    /\ merges = <<>>
    /\ one_read = FALSE
    /\ faults = [stream |-> 0, store |-> 0, port |-> 0]
    /\ hung = FALSE
    /\ now = 0
    /\ serial_lock = "free"
    /\ status_lock = "free"
    /\ send = SendIdle
    /\ InitNoCaller

SendCall ==
    /\ send.pc = "idle"
    /\ \E c \in SendCommands : SendBegin(c)
    /\ UNCHANGED callerVars

NextSend == SendCall \/ SendPollStep \/ SendTimeoutStep

SpecSend == InitSend /\ [][NextSend]_vars

(***************************************************************************)
(* SpecRecon: the reconciler alone, as the main loop's poll of the control *)
(* document (process_control_values) or as control_listener.  The plan     *)
(* says, poll by poll, what the dashboard has made of the document.  The   *)
(* stream raises nothing in these runs (a failing send is one on a closed  *)
(* stream); the remote store may fail.                                     *)
(***************************************************************************)
\* control documents: the actuator fields the dashboard sets
D_zero ==
    <<Item(K_pump1, JInt(0)), Item(K_pump2, JInt(0)), Item(K_servo, JInt(0)),
      Item(K_system, JInt(0))>>
D_on1 ==
    <<Item(K_pump1, JInt(1)), Item(K_pump2, JInt(0)), Item(K_servo, JInt(0)),
      Item(K_system, JInt(0))>>
D_p1zero == <<Item(K_pump1, JInt(0))>>
D_two == <<Item(K_pump1, JInt(2))>>
D_text1 == <<Item(K_servo, JStr(<<"1">>))>>
D_text0 == <<Item(K_servo, JStr(<<"0">>))>>
D_word == <<Item(K_pump1, JInt(1)), Item(K_pump2, JStr(<<"o", "n">>))>>
D_null == <<Item(K_pump1, JNull), Item(K_servo, JInt(1))>>
D_bool == <<Item(K_system, JBool(TRUE))>>
D_other == <<Item(K_foo, JInt(1))>>
D_absent == <<>>

ControlPlans ==
    { <<Sets(D_p1zero), Sets(D_p1zero)>>,
      <<Sets(D_zero), Sets(D_on1), Same>>,
      <<Sets(D_on1), Sets(D_zero)>>,
      <<Sets(D_two), Sets(D_two)>>,
      <<Sets(D_two), Same>>,
      <<Sets(D_text1), Sets(D_text1)>>,
      <<Sets(D_text0), Sets(D_text0)>>,
      <<Sets(D_zero), Sets(D_word), Sets(D_word), Sets(D_on1)>>,
      <<Sets(D_word), Sets(D_zero)>>,
      <<Sets(D_null), Sets(D_null)>>,
      <<Sets(D_bool), Sets(D_bool)>>,
      <<Sets(D_other), Sets(D_p1zero)>>,
      <<Sets(D_absent), Sets(D_p1zero), Sets(D_on1)>> }

\* a pumps field that is no list
X_scalar ==
    [text |-> <<"{">> \o Member(K_pumps, <<"1">>) \o <<"}">>, frame |-> FALSE, dict |-> <<>>]

ReconScripts == { <<>>, <<F_pump1>>, <<X_shape>>, <<X_scalar>> }

InitRecon ==
    /\ current_status = InitialStatus
    /\ buffer = <<>>
    /\ error_count = 0
    /\ ser \in {OpenSerial, [OpenSerial EXCEPT !.is_open = FALSE]}
    /\ script \in ReconScripts
    /\ wire = WireOf(script)
    /\ merges = <<>>
    /\ one_read = FALSE
    /\ faults = [stream |-> MaxFaults, store |-> 0, port |-> 0]
    /\ hung = FALSE
    /\ now = 0
    /\ serial_lock = "free"
    /\ status_lock = "free"
    /\ send = SendIdle
    /\ remote = <<>>
    /\ plan \in ControlPlans
    /\ previous_control = UnsetCache
    /\ recon = ReconIdle
    /\ listener \in {ListenerOff, [ListenerOff EXCEPT !.pc = "startup"]}
    /\ cycles = <<>>
    /\ main = MainOff
    /\ store_up = TRUE
    /\ sensor_db = <<>>
    /\ resets = <<>>
    /\ stalls = 0
    /\ running = TRUE

NextRecon ==
    \/ CombinedPoll
    \/ CombinedAfterSend
    \/ ListenerStartup
    \/ ListenerStarted
    \/ ListenerSleep
    \/ ListenerPoll
    \/ ListenerAfterSend
    \/ SendPollStep
    \/ SendTimeoutStep

SpecRecon == InitRecon /\ [][NextRecon]_vars

(***************************************************************************)
(* SpecMain: main() runs its loop on an open port.  The remote store is up *)
(* or down for the whole run (while it is down the dashboard's writes and  *)
(* the device's messages make no difference to the loop's timers, so those *)
(* runs have neither); the stream's reads and writes do not fail, closing  *)
(* and opening the port may.                                               *)
(***************************************************************************)
MainScripts == { <<>>, <<F_ph>>, <<X_shape>> }
MainPlans == { <<>>, <<Sets(D_on1)>> }
MainRuns ==
    {[store_up |-> FALSE, script |-> <<>>, plan |-> <<>>]}
    \cup {[store_up |-> TRUE, script |-> s, plan |-> p] : s \in MainScripts, p \in MainPlans}

InitMain ==
    /\ current_status = InitialStatus
    /\ buffer = <<>>
    /\ error_count = 0
    /\ ser = OpenSerial
    /\ \E run \in MainRuns :
        /\ script = run.script
        /\ plan = run.plan
        /\ store_up = run.store_up
    /\ wire = WireOf(script)
    /\ merges = <<>>
    /\ one_read = FALSE
    /\ faults = [stream |-> MaxFaults, store |-> 0, port |-> 0]
    /\ hung = FALSE
    /\ now = 0
    /\ serial_lock = "free"
    /\ status_lock = "free"
    /\ send = SendIdle
    /\ remote = <<>>
    /\ previous_control = UnsetCache
    /\ recon = ReconIdle
    /\ listener = ListenerOff
    /\ cycles = <<>>
    /\ main = MainStart(0)
    /\ sensor_db = <<>>
    /\ resets = <<>>
    /\ stalls = 0
    /\ running = TRUE

NextMain ==
    \/ MainTop
    \/ MainRead
    \/ MainUpload
    \/ MainPoll
    \/ MainSleep
    \/ CombinedAfterSend
    \/ SendPollStep
    \/ SendTimeoutStep

SpecMain == InitMain /\ [][NextMain]_vars

(***************************************************************************)
(* SpecStop: main() or control_listener runs its loop and the shutdown     *)
(* signal may arrive at any moment.  The run begins with StopIterations    *)
(* iterations of the main loop left.  The thread that runs keeps running:  *)
(* weak fairness of the program's steps, written with the enabling         *)
(* condition StopRunnable of StopProgram spelled out (every step of the    *)
(* program changes programVars, the signal handler changes running only). *)
(***************************************************************************)
StopIterations == 45
StopScripts == { <<>>, <<F_ph>>, <<X_close, F_ph>> }
StopPlans == { <<Sets(D_on1), Same>>, <<Sets(D_zero), Sets(D_word), Same>> }
StopRuns ==
    {[who |-> "main", store_up |-> u] : u \in BOOLEAN}
    \cup {[who |-> "listener", store_up |-> TRUE]}

InitStop ==
    /\ current_status = InitialStatus
    /\ buffer = <<>>
    /\ error_count = 0
    /\ ser = OpenSerial
    /\ script \in StopScripts
    /\ wire = WireOf(script)
    /\ merges = <<>>
    /\ one_read = FALSE
    /\ faults = [stream |-> MaxFaults, store |-> 0, port |-> 0]
    /\ hung = FALSE
    /\ now = 0
    /\ serial_lock = "free"
    /\ status_lock = "free"
    /\ send = SendIdle
    /\ remote = <<>>
    /\ plan \in StopPlans
    /\ previous_control = UnsetCache
    /\ recon = ReconIdle
    /\ cycles = <<>>
    /\ \E run \in StopRuns :
        /\ store_up = run.store_up
        /\ main = IF run.who = "main"
                  THEN [MainStart(0) EXCEPT !.iterations = MaxIterations - StopIterations]
                  ELSE MainOff
        /\ listener = IF run.who = "listener"
                      THEN [ListenerOff EXCEPT !.pc = "startup"]
                      ELSE ListenerOff
    /\ sensor_db = <<>>
    /\ resets = <<>>
    /\ stalls = 0
    /\ running = TRUE

StopProgram ==
    \/ MainTop
    \/ MainRead
    \/ MainUpload
    \/ MainPoll
    \/ MainSleep
    \/ MainExit
    \/ CombinedAfterSend
    \/ ListenerStartup
    \/ ListenerStarted
    \/ ListenerSleep
    \/ ListenerPoll
    \/ ListenerAfterSend
    \/ ListenerExit
    \/ SendPollStep
    \/ SendTimeoutStep

NextStop == StopProgram \/ SignalHandler

\* everything but the shutdown flag
programVars == <<decodeVars, sendVars, reconVars, main, store_up, sensor_db, resets, stalls>>

\* the running thread has a next step: it is in no endless loop, has not
\* left its loop, and the bounds of the run allow the step
StopRunnable ==
    /\ ~hung
    /\ \/ main.pc \in {"read", "upload", "poll", "sleep", "polling"}
       \/ /\ main.pc = "top"
          /\ ~running \/ (main.iterations < MaxIterations /\ Len(resets) < MaxResets)
       \/ listener.pc \in {"startup", "startup_send", "poll", "poll_send"}
       \/ /\ listener.pc = "sleep"
          /\ ~running \/ plan # <<>>

StopFair == []<>(~StopRunnable) \/ []<><<TRUE>>_programVars

SpecStop == InitStop /\ [][NextStop]_vars /\ StopFair

(***************************************************************************)
(* Properties of the frame decoder and of update_status                    *)
(***************************************************************************)
RecognisedKeys ==
    {K_ph, K_turbidity, K_tds, K_pumps, K_pump1, K_pump2, K_servo, K_system}

\* slot i (0-based) of a pumps value; [has |-> FALSE] where it has no such slot
PumpSlot(pumps, i) ==
    IF pumps.t = "list" /\ i < Len(pumps.l)
    THEN [has |-> TRUE, v |-> pumps.l[i + 1]]
    ELSE [has |-> FALSE, v |-> JNull]

\* the merge m left alone every field whose key its frame does not carry
MergeKeptUnnamed(m) ==
    /\ ~HasKey(m.data, K_ph) => m.after.ph = m.before.ph
    /\ ~HasKey(m.data, K_turbidity) => m.after.turbidity = m.before.turbidity
    /\ ~HasKey(m.data, K_tds) => m.after.tds = m.before.tds
    /\ ~HasKey(m.data, K_servo) => m.after.servo = m.before.servo
    /\ ~HasKey(m.data, K_system) => m.after.system = m.before.system
    /\ ~HasKey(m.data, K_pumps) /\ ~HasKey(m.data, K_pump1)
          => PumpSlot(m.after.pumps, 0) = PumpSlot(m.before.pumps, 0)
    /\ ~HasKey(m.data, K_pumps) /\ ~HasKey(m.data, K_pump2)
          => PumpSlot(m.after.pumps, 1) = PumpSlot(m.before.pumps, 1)
    /\ ~HasKey(m.data, K_pumps) => Len(m.after.pumps.l) = Len(m.before.pumps.l)
    /\ (\A i \in 1..Len(m.data) : m.data[i].k \notin RecognisedKeys)
          => m.after = m.before

\* C1: every update_status call leaves each of ph, turbidity, tds, servo,
\* system and the two pump slots as it was unless the merged frame carries
\* the field's key (pumps or pump1 for slot 0, pumps or pump2 for slot 1);
\* a frame of unrecognised keys only changes nothing.
C1_MergeKeepsUnnamedFields ==
    \A i \in 1..Len(merges) : MergeKeptUnnamed(merges[i])

\* C1 witness: a frame naming only pump1 was merged into a status whose pump
\* slots had left their defaults, and changed slot 0 alone
C1_Witness ==
    \E i \in 1..Len(merges) :
        /\ merges[i].data = F_pump1.dict
        /\ merges[i].before.pumps = JList(<<JInt(1), JInt(1)>>)
        /\ merges[i].after.pumps = JList(<<JInt(0), JInt(1)>>)

\* the device sent only frames of the wire format
AllFrames(sc) == \A i \in 1..Len(sc) : sc[i].frame

\* the fields of the frames merged so far, and those the script carries
MergedFields == [i \in 1..Len(merges) |-> merges[i].data]
ScriptFields(sc) == [i \in 1..Len(sc) |-> sc[i].dict]

\* C2 (as claimed): once a script of frames has been read completely, in
\* whatever chunks, the frames merged are the script's frames, in order,
\* as they are when each frame arrives whole.
C2_SplitInvariance ==
    (AllFrames(script) /\ wire = <<>> /\ ser.is_open /\ ~hung)
        => MergedFields = ScriptFields(script)

\* what holds of the code: split invariance for frames that fit the
\* 100 characters an unclosed frame may reach
C2_SplitInvarianceShortFrames ==
    (AllFrames(script) /\ wire = <<>> /\ ser.is_open /\ ~hung
       /\ \A i \in 1..Len(script) : Len(script[i].text) <= CorruptLen)
        => MergedFields = ScriptFields(script)

\* the value the last frame of the script that carries key gives it
LastValue(sc, key) ==
    GetKey(sc[Greatest({i \in 1..Len(sc) : HasKey(sc[i].dict, key)})].dict, key)
Named(sc, key) == \E i \in 1..Len(sc) : HasKey(sc[i].dict, key)

\* the merges form one chain from the initial status to the current one
MergesChained ==
    /\ \A i \in 1..Len(merges) :
          /\ ~merges[i].raised
          /\ merges[i].before = IF i = 1 THEN InitialStatus ELSE merges[i - 1].after
    /\ merges # <<>> => merges[Len(merges)].after = current_status

\* C3: when one read delivers a script of k >= 1 frames back to back into
\* the empty buffer, that call merges all k frames in arrival order, leaves
\* the fields no frame names at their former values, and leaves the buffer
\* empty.
C3_BackToBackFrames ==
    (one_read /\ AllFrames(script))
        => /\ MergedFields = ScriptFields(script)
           /\ MergesChained
           /\ buffer = <<>>
           /\ ~hung
           /\ current_status.ph =
                 IF Named(script, K_ph) THEN LastValue(script, K_ph) ELSE InitialStatus.ph
           /\ current_status.turbidity =
                 IF Named(script, K_turbidity) THEN LastValue(script, K_turbidity)
                 ELSE InitialStatus.turbidity
           /\ current_status.tds =
                 IF Named(script, K_tds) THEN LastValue(script, K_tds) ELSE InitialStatus.tds
           /\ current_status.servo =
                 IF Named(script, K_servo) THEN LastValue(script, K_servo)
                 ELSE InitialStatus.servo
           /\ current_status.system =
                 IF Named(script, K_system) THEN LastValue(script, K_system)
                 ELSE InitialStatus.system
           /\ (~Named(script, K_pumps) /\ ~Named(script, K_pump1) /\ ~Named(script, K_pump2))
                 => current_status.pumps = InitialStatus.pumps

\* C3 witness: the two frames of the spec's scenario arrived in one read
C3_Witness ==
    /\ one_read
    /\ script = <<F_spec1, F_servo>>
    /\ current_status.ph = JInt(7)
    /\ current_status.tds = JInt(320)
    /\ current_status.servo = JInt(1)

\* C9: whenever a read step has returned the buffer holds at most 500
\* characters, and at most 100 when the device sends nothing but '{'.
C9_BufferBound ==
    ~hung => /\ Len(buffer) <= MaxBufferLen
             /\ (\A i \in 1..Len(WireOf(script)) : WireOf(script)[i] = "{")
                    => Len(buffer) <= CorruptLen

\* C9 witness: more than 100 lone '{' were read, or more than 500 characters
\* of noise, and the buffer was cut
C9_Witness ==
    /\ script \in {<<X_open>>, <<X_noise>>}
    /\ wire = <<>>
    /\ ser.is_open
    /\ Len(buffer) < Len(WireOf(script))

(***************************************************************************)
(* Properties of send_command_to_arduino                                   *)
(***************************************************************************)
\* the command names none of pump1, pump2, servo, system
NoRecognisedKey(command) == \A i \in 1..Len(command) : ~IsActuatorKey(command[i].k)

\* C6: a call on an open stream with a command that is empty or has only
\* unrecognised keys returns False and has not touched the stream: nothing
\* was probed, read, written or flushed, the pending input is still pending,
\* and current_status is as the call found it.
C6_CommandRejection ==
    (send.pc = "done" /\ send.ser0.is_open /\ NoRecognisedKey(send.command))
        => /\ ~send.result
           /\ ~send.raised
           /\ send.probes = 0
           /\ send.reads = 0
           /\ ser = send.ser0
           /\ wire = send.wire0
           /\ current_status = send.status0

\* C6 witness: {"foo": 1} was rejected while stale input was waiting
C6_Witness ==
    /\ send.pc = "done"
    /\ send.ser0.is_open
    /\ send.command = C_foo
    /\ ~send.result
    /\ wire # <<>>

\* C7 (as claimed): a call on an open stream whose command has a recognised
\* key and whose write and flush succeeded returns True, whatever arrives
\* during the wait; when nothing arrived it returns once the two seconds of
\* the wait are over.
C7_SendSuccessIndependentOfAck ==
    (send.pc = "done" /\ send.ser0.is_open /\ ~NoRecognisedKey(send.command)
       /\ send.wrote = "ok" /\ send.flushed = "ok")
        => /\ send.result
           /\ ~send.raised
           /\ send.acks = 0 => /\ now - send.start_time >= AckWaitTicks
                               /\ now - send.start_time < AckWaitTicks + AckPollTicks

\* what holds of the code: the same, for a call during which no evaluation
\* of ser.in_waiting raised
C7_SendSuccessWhenProbesWork ==
    (send.pc = "done" /\ send.ser0.is_open /\ ~NoRecognisedKey(send.command)
       /\ send.wrote = "ok" /\ send.flushed = "ok" /\ ~send.probe_raised)
        => /\ send.result
           /\ ~send.raised
           /\ send.acks = 0 => /\ now - send.start_time >= AckWaitTicks
                               /\ now - send.start_time < AckWaitTicks + AckPollTicks

\* C8: a call on a stream that is not open returns False and has written
\* nothing; a call whose write or flush raised returns False; in each case
\* no exception left the call, serial_lock is free again and current_status
\* is as the call found it.
C8_TransportFailuresReturned ==
    (send.pc = "done"
       /\ (~send.ser0.is_open \/ send.wrote = "raised" \/ send.flushed = "raised"))
        => /\ ~send.result
           /\ ~send.raised
           /\ serial_lock = "free"
           /\ current_status = send.status0
           /\ ~send.ser0.is_open => (ser = send.ser0 /\ wire = send.wire0)

\* C8 witness: the flush of a written command raised
C8_Witness ==
    /\ send.pc = "done"
    /\ send.flushed = "raised"
    /\ ser.written = CommandJson(C_pump1)
    /\ ~send.result

(***************************************************************************)
(* Properties of the reconciler                                            *)
(***************************************************************************)
\* the actuator fields of a document
Actuators(doc) == SelectSeq(doc, LAMBDA it : IsActuatorKey(it.k))

\* the key is in the document with a value that has a 0/1 coercion, and
\* that coercion differs from the cache entry (an unset entry differs from
\* every value)
Differs(doc, cache, key) ==
    /\ HasKey(doc, key)
    /\ Coerce(GetKey(doc, key)).ok
    /\ \/ GetKey(cache, key).t = "null"
       \/ ~PyEq(Coerce(GetKey(doc, key)).value, GetKey(cache, key))

\* the keys of the document that differ from the cache, in the order of the
\* actuator keys, each with its coerced value
DeltaKeys(doc, cache) == SelectSeq(ActuatorKeys, LAMBDA k : Differs(doc, cache, k))
DeltaOf(doc, keys) == [i \in 1..Len(keys) |-> Item(keys[i], Coerce(GetKey(doc, keys[i])).value)]
Delta(doc, cache) == DeltaOf(doc, DeltaKeys(doc, cache))

\* C4 (as claimed): in every cycle of process_control_values and of the
\* polling body of control_listener the command handed to
\* send_command_to_arduino is exactly the delta: the actuator keys of the
\* document whose coerced value differs from the cache entry, each with its
\* coerced value; when the delta is empty, and only then, nothing is handed.
C4_DeltaOnlyForwarding ==
    \A i \in 1..Len(cycles) :
        cycles[i].kind \in {"combined", "poll"}
            => cycles[i].command = Delta(cycles[i].doc, cycles[i].before)

\* what holds of the code: the same for every cycle that no exception ended
C4_DeltaOnlyForwardingCompleted ==
    \A i \in 1..Len(cycles) :
        (cycles[i].kind \in {"combined", "poll"} /\ ~cycles[i].aborted)
            => cycles[i].command = Delta(cycles[i].doc, cycles[i].before)

\* the first cycle forwarded every actuator key of its document that has a
\* coercion, with the coerced value
ForwardedAll(c) ==
    \A j \in 1..Len(ActuatorKeys) :
        (HasKey(c.doc, ActuatorKeys[j]) /\ Coerce(GetKey(c.doc, ActuatorKeys[j])).ok)
            => /\ HasKey(FormatCommand(c.command), ActuatorKeys[j])
               /\ GetKey(FormatCommand(c.command), ActuatorKeys[j])
                     = Coerce(GetKey(c.doc, ActuatorKeys[j])).value

\* C5 (as claimed): the first cycle (the cache of process_control_values is
\* unset; control_listener reads its initial values) forwards every actuator
\* key of the document with its coerced value, a 0 included, and a second
\* cycle that reads the same actuator values forwards nothing.
C5_UnsetTriggersOneSend ==
    /\ Len(cycles) >= 1 => ForwardedAll(cycles[1])
    /\ (Len(cycles) >= 2 /\ Actuators(cycles[2].doc) = Actuators(cycles[1].doc))
          => cycles[2].command = <<>>

\* what holds of the code: the same for process_control_values
C5_UnsetTriggersOneSendCombined ==
    /\ (Len(cycles) >= 1 /\ cycles[1].kind = "combined") => ForwardedAll(cycles[1])
    /\ (Len(cycles) >= 2 /\ cycles[1].kind = "combined"
          /\ Actuators(cycles[2].doc) = Actuators(cycles[1].doc))
          => cycles[2].command = <<>>

(***************************************************************************)
(* The reset of the stream                                                 *)
(***************************************************************************)
\* the time of the last successful reset before the j-th call of
\* reset_serial_port, or of the start of main
LastResetBefore(j) ==
    LET S == {i \in 1..(j - 1) : resets[i].ok}
    IN  IF S = {} THEN main.started
        ELSE resets[CHOOSE i \in S : \A k \in S : k <= i].at

C11_ReadStepTerminates == ~hung

(***************************************************************************)
(* Shutdown                                                                *)
(***************************************************************************)
\* main and control_listener have left their loops (or were never started)
LoopsExited == main.pc \in {"off", "exit"} /\ listener.pc \in {"off", "exit"}

\* C12: Cancellation.  Once the shutdown flag is down, the main loop and
\* the loop of control_listener terminate, whatever the device sends and
\* whatever the remote store returns: each loop has been left, or the
\* program can still take a step of the iteration it is finishing.
C12_Cancellation == (~running) => (LoopsExited \/ StopRunnable)

\* what holds of the code: the loops are left unless the read step of the
\* running iteration never returns
C12_CancellationUnlessHung == (~running) ~> (hung \/ LoopsExited)

\* what holds of the code: with the flag down no iteration is started
C12_NoIterationAfterShutdown ==
    [][(~running) => /\ ~(main.pc = "top" /\ main'.pc = "read")
                     /\ ~(listener.pc = "sleep" /\ listener'.pc = "poll")]_vars

(***************************************************************************)
(* The stream and serial_lock                                              *)
(***************************************************************************)
\* the step reads from the stream, probes it, writes to it, closes or
\* reopens it
StreamTouched ==
    \/ wire' # wire
    \/ ser' # ser
    \/ faults'.stream # faults.stream
    \/ faults'.port # faults.port
    \/ resets' # resets /\ ser.is_open

\* the step belongs to a call of send_command_to_arduino, which holds
\* serial_lock from line 132 to its return
SendHoldsLock ==
    /\ send' # send
    /\ serial_lock = "send" \/ serial_lock' = "send" \/ send'.pc = "done"

\* C13: every access to the stream is made while holding serial_lock, so
\* that nothing else reads, writes, closes or reopens the stream while a send
\* is between its drain and the end of its wait.
C13_StreamUnderLock == [][StreamTouched => SendHoldsLock]_vars

\* what holds of the code as main runs it (one thread): while a send holds
\* serial_lock no other step touches the stream
C13_NothingElseDuringSend ==
    [][(serial_lock = "send" /\ StreamTouched) => SendHoldsLock]_vars

(***************************************************************************)
(* current_status and what the device has sent                             *)
(***************************************************************************)
RECURSIVE ReceivedOf(_, _)
\* the messages of the script sc that lie wholly within its first n characters
ReceivedOf(sc, n) ==
    IF sc = <<>> \/ Len(Head(sc).text) > n THEN <<>>
    ELSE <<Head(sc)>> \o ReceivedOf(Tail(sc), n - Len(Head(sc).text))

\* the frames the bridge has read from the stream so far, in order
Received ==
    SelectSeq(ReceivedOf(script, Len(WireOf(script)) - Len(wire)), LAMBDA m : m.frame)

\* the field holds its default or what the last received frame naming key carries
Confirmed(value, key) ==
    Named(Received, key) => value \in {JInt(0), LastValue(Received, key)}

\* C14: current_status holds device-confirmed values only: whenever the read
\* step has returned, each of ph, turbidity, tds, servo and system is its
\* default or the value of the most recent frame received from the device
\* that names it.
C14_DeviceConfirmedValues ==
    ~hung => /\ Confirmed(current_status.ph, K_ph)
             /\ Confirmed(current_status.turbidity, K_turbidity)
             /\ Confirmed(current_status.tds, K_tds)
             /\ Confirmed(current_status.servo, K_servo)
             /\ Confirmed(current_status.system, K_system)

\* what holds of the code: current_status changes only in a call of
\* update_status on a frame decoded from the stream, so a command that gets
\* no response changes no field
C14_ChangedOnlyByMerges ==
    [][current_status' # current_status
          => /\ Len(merges') > Len(merges)
             /\ wire' # wire]_vars

(***************************************************************************)
(* The coercion of actuator values                                         *)
(***************************************************************************)
\* the coerced values the law admits: 1 for a truthy value and 0 otherwise
\* (None is 0); a str of digits may also be judged by the number it spells
Law(v) ==
    {JInt(Bit(v))} \cup
        (IF v.t = "str" /\ IntOf(v).ok THEN {BitOfInt(IntOf(v)).value} ELSE {})

\* the cycle c obeys the law for key: the value written to the stream for
\* key, and the value a polling cycle stored in the cache for key, is a Law
\* value of the document's value; coercing the coerced value changes nothing
CoercedByLaw(c, key) ==
    /\ HasKey(FormatCommand(c.command), key)
          => GetKey(FormatCommand(c.command), key) \in Law(GetKey(c.doc, key))
    /\ (c.kind \in {"combined", "poll"} /\ GetKey(c.after, key) # GetKey(c.before, key))
          => GetKey(c.after, key) \in Law(GetKey(c.doc, key))
    /\ Coerce(GetKey(c.doc, key)).ok
          => Coerce(Coerce(GetKey(c.doc, key)).value) = Coerce(GetKey(c.doc, key))

\* C15: Coercion law.  Every actuator value written to the stream in a
\* command line, and every value a polling cycle stores in previous_control,
\* is 1 when the document's value is truthy and 0 otherwise (None gives 0),
\* and coercion is idempotent.
C15_CoercionLaw ==
    \A i \in 1..Len(cycles) : \A j \in 1..Len(ActuatorKeys) :
        HasKey(cycles[i].doc, ActuatorKeys[j]) => CoercedByLaw(cycles[i], ActuatorKeys[j])

\* what holds of the code: the law for the values that are None, bool or int
C15_CoercionLawOfNumbers ==
    \A i \in 1..Len(cycles) : \A j \in 1..Len(ActuatorKeys) :
        (/\ HasKey(cycles[i].doc, ActuatorKeys[j])
         /\ GetKey(cycles[i].doc, ActuatorKeys[j]).t \in {"null", "bool", "int"})
            => CoercedByLaw(cycles[i], ActuatorKeys[j])

(***************************************************************************)
(* The keys of the sensor records                                          *)
(***************************************************************************)
\* the step is an upload step of main that reaches the set of line 524
UploadSets ==
    /\ main.pc = "upload"
    /\ main'.pc = "poll"
    /\ store_up
    /\ main.current_time - main.last_sensor_upload >= UploadPeriodTicks

\* the key of the record the upload step writes is not in use
KeyUnused == ~HasKey(sensor_db, TimestampKey(now))

\* C16: Sensor records are appended, never overwritten.  Every upload of a
\* run writes its record under a timestamp key no earlier upload of the run
\* has used, also after iterations in which part of the upload step failed.
C16_RecordsAppended == [][UploadSets => KeyUnused]_vars

\* what holds of the code: the key is new as long as no upload step has
\* failed and the serial port has not been reset
C16_RecordsAppendedWithoutFailure ==
    [][(UploadSets /\ main.serial_errors = 0 /\ resets = <<>>) => KeyUnused]_vars

(***************************************************************************)
(* initialize_control_values: the control document at start-up             *)
(***************************************************************************)
\* lines 390-396: default_values at time t
DefaultValues(t) ==
    <<Item(K_pump1, JInt(0)), Item(K_pump2, JInt(0)), Item(K_servo, JInt(0)),
      Item(K_system, JInt(0)), Item(K_last_updated, Stamp(t))>>

\* the loop of lines 409-412 with a slip: every default is taken
MissingValuesAll(control_data, defaults) == defaults

\* lines 409-412: update_values, the defaults of the keys control_data lacks
MissingValues(control_data, defaults) ==
    SelectSeq(defaults, LAMBDA it : ~HasKey(control_data, it.k))

\* lines 402-416: the document after the set or the update of the missing keys
Filled(control_data, t) ==
    IF control_data = <<>>
    THEN DefaultValues(t)
    ELSE UpdateDoc(control_data, MissingValues(control_data, DefaultValues(t)))

\* lines 387-420: the document the call leaves in the store
Initialized(control_data, t) ==
    UpdateDoc(Filled(control_data, t), <<Item(K_last_updated, Stamp(t))>>)

\* the history entry of the call: the document read, the cache untouched
InitializeEntry(control_data) ==
    [kind |-> "initialize", doc |-> control_data, before |-> previous_control,
     after |-> previous_control, command |-> <<>>, aborted |-> FALSE]

\* line 477 of main: initialize_control_values()
InitializeControlValues ==
    /\ main.pc = "initialize"
    /\ remote' = Initialized(remote, now)
    /\ cycles' = Append(cycles, InitializeEntry(remote))
    /\ main' = [main EXCEPT !.pc = "initialized"]
    /\ UNCHANGED <<decodeVars, sendVars, plan, previous_control, recon, listener,
                   store_up, sensor_db, resets, stalls, running>>

\* the time of the call: the stamp differs from the stamp of the documents
InitializeTicks == 2 * TicksPerSecond

\* a key with value v, or no key when v is None (the store keeps no null)
Stored(k, v) == IF v.t = "null" THEN <<>> ELSE <<Item(k, v)>>
StoredValues == {JNull, JInt(0), JInt(1), JStr(<<"o", "n">>)}
\* the control documents the store may hold before the call
StoredDocs ==
    { Stored(K_pump1, a) \o Stored(K_last_updated, u) \o Stored(K_servo, c)
          \o Stored(K_pump2, b) \o Stored(K_system, d) :
        a \in StoredValues, b \in StoredValues, c \in {JNull, JInt(1)},
        d \in {JNull, JInt(0)}, u \in {JNull, Stamp(0)} }

InitInitialize ==
    /\ current_status = InitialStatus
    /\ buffer = <<>>
    /\ error_count = 0
    /\ ser = OpenSerial
    /\ script = <<>>
    /\ wire = <<>>
    /\ merges = <<>>
    /\ one_read = FALSE
    /\ faults = [stream |-> MaxFaults, store |-> 0, port |-> 0]
    /\ hung = FALSE
    /\ now = InitializeTicks
    /\ serial_lock = "free"
    /\ status_lock = "free"
    /\ send = SendIdle
    /\ remote \in StoredDocs
    /\ plan = <<>>
    /\ previous_control = UnsetCache
    /\ recon = ReconIdle
    /\ listener = ListenerOff
    /\ cycles = <<>>
    /\ main = [MainOff EXCEPT !.pc = "initialize"]
    /\ store_up = TRUE
    /\ sensor_db = <<>>
    /\ resets = <<>>
    /\ stalls = 0
    /\ running = TRUE

NextInitialize == InitializeControlValues
SpecInitialize == InitInitialize /\ [][NextInitialize]_vars

\* the document after holds every key, 0 for an actuator key the document
\* before lacked and the value of before for an actuator key it had
InitializedFrom(before, after) ==
    /\ HasKey(after, K_last_updated)
    /\ \A j \in 1..Len(ActuatorKeys) :
        /\ HasKey(after, ActuatorKeys[j])
        /\ GetKey(after, ActuatorKeys[j]) =
                 IF HasKey(before, ActuatorKeys[j])
                 THEN GetKey(before, ActuatorKeys[j])
                 ELSE JInt(0)

\* C17: Control-document initialisation.  After initialize_control_values
\* returns, the control document holds pump1, pump2, servo, system and
\* last_updated; an actuator key that was absent is 0 and one that was present
\* keeps its value; last_updated is the time of the call.
C17_ControlInitialisation ==
    main.pc = "initialized" =>
      /\ InitializedFrom(cycles[Len(cycles)].doc, remote)
      /\ GetKey(remote, K_last_updated) = Stamp(now)

\* the call has returned for a document that had pump1 on and an old stamp
\* but no servo: pump1 is kept, servo filled
C17_Witness ==
    /\ main.pc = "initialized"
    /\ HasKey(cycles[Len(cycles)].doc, K_pump1)
    /\ GetKey(cycles[Len(cycles)].doc, K_pump1) = JInt(1)
    /\ HasKey(cycles[Len(cycles)].doc, K_last_updated)
    /\ ~HasKey(cycles[Len(cycles)].doc, K_servo)
    /\ GetKey(remote, K_pump1) = JInt(1)
    /\ GetKey(remote, K_servo) = JInt(0)

(***************************************************************************)
(* The shape of current_status['pumps']                                    *)
(***************************************************************************)
\* v is the int 0 or the int 1
ZeroOrOne(v) == v.t = "int" /\ v.n \in {0, 1}

\* pumps is a list of exactly two entries, each 0 or 1
PumpPair(pumps) ==
    /\ pumps.t = "list"
    /\ Len(pumps.l) = 2
    /\ ZeroOrOne(pumps.l[1])
    /\ ZeroOrOne(pumps.l[2])

\* C18: pumpState shape invariant.  In every reachable state, after any
\* sequence of decoded frames, current_status['pumps'] is a pair of exactly
\* two entries, each 0 or 1, so reading slot 0 and slot 1 never fails.
C18_PumpStateShape == PumpPair(current_status.pumps)

\* what holds of the code: a frame changes pumps to something that is no
\* pair only when it carries a pumps field itself
C18_ShapeLeftOnlyByPumpsField ==
    [][(PumpPair(current_status.pumps) /\ ~PumpPair(current_status'.pumps))
          => \E i \in (Len(merges) + 1)..Len(merges') : HasKey(merges'[i].data, K_pumps)]_vars

(***************************************************************************)
(* The write-back of a reconciliation cycle                                *)
(***************************************************************************)
\* the step ends a cycle that has forwarded a command: the part of
\* process_control_values or of control_listener after the send
CycleEnds ==
    \/ recon.pc = "send" /\ recon'.pc # "send"
    \/ listener.pc = "poll_send" /\ listener'.pc # "poll_send"

\* C19: Write-back only on success.  A cycle that forwards a non-empty
\* command writes the remote control document only if the send returned
\* success; when the send returns failure the cycle writes nothing.
C19_WriteBackOnlyOnSuccess == [][(CycleEnds /\ remote' # remote) => send.result]_vars

\* what holds of the code: the document is written at the end of a cycle
\* whatever the send returned, unless the status report or the store raises
C19_WriteBackWhateverTheResult ==
    [][(CycleEnds /\ remote' = remote) =>
          \/ faults'.store > faults.store
          \/ CombinedReportRaises(recon.command, current_status)
          \/ ListenerReportRaises(listener.command, current_status)]_vars

(***************************************************************************)
(* What the serial-error counter counts                                    *)
(***************************************************************************)
\* the step is the read step of an iteration of main, and the read failed:
\* read_and_upload_data has counted an error or found the port closed
ReadStepFailed ==
    /\ main.pc = "read"
    /\ main'.pc = "upload"
    /\ (error_count' > error_count \/ ~ser.is_open)

\* the step raises serial_errors
ErrorCounted == main'.serial_errors > main.serial_errors

\* C20: The serial-error counter counts failures of the device read path
\* and nothing else.  It is incremented in an iteration if and only if the
\* read step of the iteration failed; a failure of a remote-store call never
\* increments it.
C20_CountsReadFailuresOnly == [][ErrorCounted <=> ReadStepFailed]_vars

\* what holds of the code: the counter is raised by the upload step only,
\* when the store call or the states line raises, and never by a failed read
C20_CountsUploadFailuresOnly ==
    [][/\ ErrorCounted =>
            /\ main.pc = "upload"
            /\ main'.serial_errors = main.serial_errors + 1
            /\ (~store_up \/ StatesLineRaises(current_status))
       /\ ReadStepFailed => ~ErrorCounted]_vars

(***************************************************************************)
(* Reset attempts that follow each other                                   *)
(***************************************************************************)
\* C21: No reset storm.  Any two consecutive calls of reset_serial_port,
\* whether the earlier one succeeded or failed, are more than 60 seconds
\* apart; a failed reset is not repeated in the next iteration of main.
C21_NoResetStorm ==
    \A j \in 2..Len(resets) : resets[j].at - resets[j - 1].at > ResetCooldownTicks

\* what holds of the code: a call that follows a failed call comes with the
\* counter the failed call left, and nothing but a successful call delays it
C21_FailedResetKeepsCounter ==
    \A j \in 2..Len(resets) :
        ~resets[j - 1].ok =>
            /\ resets[j].errors >= resets[j - 1].errors
            /\ LastResetBefore(j) = LastResetBefore(j - 1)

(***************************************************************************)
(* The spacing of the upload attempts                                      *)
(***************************************************************************)
\* the step is an upload step of main in which the upload is due: the set
\* of line 524 is called
UploadAttempted ==
    /\ main.pc = "upload"
    /\ main'.pc = "poll"
    /\ main.current_time - main.last_sensor_upload >= UploadPeriodTicks

\* the upload begun now is at least one upload interval after the last one
AttemptSpaced ==
    main.last_attempt # <<>> => now - main.last_attempt[1] >= UploadPeriodTicks

\* C22: A failed upload is not retried.  After an upload whose remote write
\* or any later part fails, the next upload is attempted no earlier than one
\* upload interval later; the uploader makes at most one attempt per interval.
C22_FailedUploadNotRetried == [][UploadAttempted => AttemptSpaced]_vars

\* what holds of the code: the attempt after an upload that was completed,
\* in an iteration that began at the time of its attempt, is an interval later
C22_SpacedAfterCompletedUpload ==
    [][(UploadAttempted /\ main.last_attempt = <<main.last_sensor_upload>>)
          => AttemptSpaced]_vars

(***************************************************************************)
(* The acknowledgement of a command                                        *)
(***************************************************************************)
\* the call has returned after a wait that read a complete frame, and had
\* found nothing waiting before it wrote: every frame read was read by the
\* wait loop
FrameReadInWait ==
    /\ send.pc = "done"
    /\ send.flushed = "ok"
    /\ ~send.probe_raised
    /\ send.reads = send.acks
    /\ Received # <<>>

\* the first frame the wait read has been merged by update_status
FirstFrameMerged == merges # <<>> /\ merges[1].data = Received[1].dict

\* C23: Acknowledgement reception.  If the device delivers a complete
\* well-formed frame during the response wait of a send, before the timeout,
\* the frame is decoded and merged into current_status before the send
\* returns, whether its bytes come in one poll or spread over several.
C23_AcknowledgementReceived == FrameReadInWait => FirstFrameMerged

\* what holds of the code: the frame is merged when one read of the wait
\* loop took all that the wait read
C23_AcknowledgementInOnePoll == (FrameReadInWait /\ send.acks = 1) => FirstFrameMerged

(***************************************************************************)
(* SpecMirror: main with the remote store up and a dashboard that writes   *)
(* one actuator key of the control document once, at any moment of the     *)
(* run.  The write is kept in the history of the cycles, so that the cycle *)
(* next to it is the first one that reads the document after the write.    *)
(***************************************************************************)
DashboardKeys == {K_pump1, K_servo}
DashboardValues == {JInt(1)}

\* the history entry of a write of the dashboard: the key and the value
\* written, the cache untouched
DashboardEntry(k, v) ==
    [kind |-> "dashboard", doc |-> <<Item(k, v)>>, before |-> previous_control,
     after |-> previous_control, command |-> <<>>, aborted |-> FALSE]

\* the dashboard has not written yet
NotWritten == \A i \in 1..Len(cycles) : cycles[i].kind # "dashboard"

\* the dashboard sets a key of the control document to a value that differs
\* from the last-forwarded one
DashboardWrites ==
    /\ main.pc \notin {"off", "exit"}
    /\ store_up
    /\ NotWritten
    /\ \E k \in DashboardKeys : \E v \in DashboardValues :
          /\ GetKey(previous_control, k).t = "null" \/ ~PyEq(v, GetKey(previous_control, k))
          /\ remote' = PutKey(remote, k, v)
          /\ cycles' = Append(cycles, DashboardEntry(k, v))
    /\ UNCHANGED <<decodeVars, sendVars, plan, previous_control, recon, listener,
                   mainVars>>

MirrorScripts == { <<>>, <<F_pump1>> }

InitMirror ==
    /\ current_status = InitialStatus
    /\ buffer = <<>>
    /\ error_count = 0
    /\ ser = OpenSerial
    /\ script \in MirrorScripts
    /\ wire = WireOf(script)
    /\ merges = <<>>
    /\ one_read = FALSE
    /\ faults = [stream |-> MaxFaults, store |-> 0, port |-> 0]
    /\ hung = FALSE
    /\ now = 0
    /\ serial_lock = "free"
    /\ status_lock = "free"
    /\ send = SendIdle
    /\ remote = <<>>
    /\ plan = <<>>
    /\ previous_control = UnsetCache
    /\ recon = ReconIdle
    /\ listener = ListenerOff
    /\ cycles = <<>>
    /\ main = MainStart(0)
    /\ store_up = TRUE
    /\ sensor_db = <<>>
    /\ resets = <<>>
    /\ stalls = 0
    /\ running = TRUE

NextMirror ==
    \/ MainTop
    \/ MainRead
    \/ MainUpload
    \/ MainPoll
    \/ MainSleep
    \/ CombinedAfterSend
    \/ SendPollStep
    \/ SendTimeoutStep
    \/ DashboardWrites

SpecMirror == InitMirror /\ [][NextMirror]_vars

(***************************************************************************)
(* The way of a remote write to the device                                 *)
(***************************************************************************)
\* the cycle c hands the value of the written item to the send
Forwards(c, written) ==
    /\ HasKey(c.command, written.k)
    /\ GetKey(c.command, written.k) = Coerce(written.v).value

\* C24: Remote intent reaches the device.  When the dashboard sets an
\* actuator key of the control document to a value that differs from the
\* last-forwarded one and writes no more, the next cycle of the combined loop
\* that reads the document forwards that value for that key: the mirror of
\* current_status into the document does not overwrite it before.
C24_RemoteIntentReachesDevice ==
    \A i \in 1..(Len(cycles) - 1) :
        cycles[i].kind = "dashboard" => Forwards(cycles[i + 1], cycles[i].doc[1])

\* what holds of the code: the value is forwarded by the next cycle when
\* the document that cycle reads still holds it
C24_ForwardedWhenStillThere ==
    \A i \in 1..(Len(cycles) - 1) :
        (/\ cycles[i].kind = "dashboard"
         /\ HasKey(cycles[i + 1].doc, cycles[i].doc[1].k)
         /\ GetKey(cycles[i + 1].doc, cycles[i].doc[1].k) = cycles[i].doc[1].v)
            => Forwards(cycles[i + 1], cycles[i].doc[1])

(***************************************************************************)
(* The cache and the send                                                  *)
(***************************************************************************)
\* the cycles that look for changed keys: process_control_values and the
\* polling body of control_listener
Detecting(c) == c.kind \in {"combined", "poll"}

\* the cache of the caller that ran cycle c, as it is now
CacheNow(c) == IF c.kind = "combined" THEN previous_control ELSE listener.previous_control

\* the cycle c found key changed: it put it in its command or in its cache
Detected(c, key) ==
    HasKey(c.command, key) \/ GetKey(c.after, key) # GetKey(c.before, key)

\* the documents of the cycles i to j all hold the same value for key
SameValueRead(i, j, key) ==
    \A m \in i..j :
        /\ HasKey(cycles[m].doc, key)
        /\ GetKey(cycles[m].doc, key) = GetKey(cycles[i].doc, key)

\* C25: The last-forwarded cache is committed before the send and kept
\* whatever the send returns.  When a cycle detects a changed key the cache
\* holds the new value when send_command_to_arduino is called, and still
\* holds it after a send that returned False; every later cycle that reads the
\* same remote value for the key forwards nothing for it.
C25_CacheCommittedBeforeSend ==
    \A i \in 1..Len(cycles) :
        Detecting(cycles[i]) =>
            /\ \A n \in 1..Len(cycles[i].command) :
                   GetKey(cycles[i].after, cycles[i].command[n].k) = cycles[i].command[n].v
            /\ IF i = Len(cycles)
               THEN CacheNow(cycles[i]) = cycles[i].after
               ELSE cycles[i + 1].before = cycles[i].after
            /\ \A j \in (i + 1)..Len(cycles) : \A k \in 1..Len(ActuatorKeys) :
                   (Detected(cycles[i], ActuatorKeys[k]) /\ SameValueRead(i, j, ActuatorKeys[k]))
                       => ~HasKey(cycles[j].command, ActuatorKeys[k])

\* a cycle forwarded pump1 on a closed stream, the send returned False, the
\* cache holds the value, and the next cycle read the same value and
\* forwarded nothing
C25_Witness ==
    /\ ~ser.is_open
    /\ Len(cycles) = 2
    /\ Detecting(cycles[1])
    /\ HasKey(cycles[1].command, K_pump1)
    /\ SameValueRead(1, 2, K_pump1)
    /\ cycles[2].command = <<>>
    /\ send.pc = "done"
    /\ ~send.result
    /\ GetKey(CacheNow(cycles[1]), K_pump1) = GetKey(cycles[1].command, K_pump1)

(***************************************************************************)
(* SpecLocks: main and control_listener as two threads, seen at the lines  *)
(* that take and leave serial_lock and status_lock.  A thread is "main" or *)
(* "listener"; a lock is "free" or holds the name of its thread.  What the *)
(* code between two such lines decides (a frame was decoded or not, a      *)
(* command is due or not, a call raised or not) is a free choice of the    *)
(* next position.  A with block leaves its lock on every way out.          *)
(***************************************************************************)
Threads == {"main", "listener"}

\* the position of thread t, and the step of t to position p
Pc(t) == IF t = "main" THEN main.pc ELSE listener.pc
Goto(t, p) ==
    IF t = "main"
    THEN main' = [main EXCEPT !.pc = p] /\ UNCHANGED listener
    ELSE listener' = [listener EXCEPT !.pc = p] /\ UNCHANGED main

\* what no step of the threads changes
LockFrame ==
    UNCHANGED <<decodeVars, now, send, remote, plan, previous_control, recon, cycles,
                store_up, sensor_db, resets, stalls, running>>

\* a step of t from one position to one of tos that takes and leaves no lock
Moves(t, from, tos) ==
    /\ Pc(t) = from
    /\ \E p \in tos : Goto(t, p)
    /\ UNCHANGED <<serial_lock, status_lock>>
    /\ LockFrame

\* line 93, with status_lock: t enters when the lock is free
StatusAcquire(t, from, to) ==
    /\ Pc(t) = from
    /\ status_lock = "free"
    /\ status_lock' = t
    /\ Goto(t, to)
    /\ UNCHANGED serial_lock
    /\ LockFrame

\* the end of a with status_lock block, by its last line or by an exception
StatusRelease(t, from, tos) ==
    /\ Pc(t) = from
    /\ status_lock' = "free"
    /\ \E p \in tos : Goto(t, p)
    /\ UNCHANGED serial_lock
    /\ LockFrame

\* line 132, with serial_lock: t enters when the lock is free
SerialAcquire(t, from, to) ==
    /\ Pc(t) = from
    /\ serial_lock = "free"
    /\ serial_lock' = t
    /\ Goto(t, to)
    /\ UNCHANGED status_lock
    /\ LockFrame

\* SerialRelease with a slip: a return inside the block keeps the lock
SerialReleaseKept(t, from, tos) ==
    /\ Pc(t) = from
    /\ \E p \in tos : Goto(t, p)
    /\ UNCHANGED <<serial_lock, status_lock>>
    /\ LockFrame

\* the end of the with serial_lock block of line 132: the returns of lines
\* 136, 149 and 207 and the handler of lines 208-212
SerialRelease(t, from, tos) ==
    /\ Pc(t) = from
    /\ serial_lock' = "free"
    /\ \E p \in tos : Goto(t, p)
    /\ UNCHANGED status_lock
    /\ LockFrame

\* update_status(data), lines 90-128: the with block of line 93, left by
\* line 128 or by an exception of lines 113/121
UpdateStatusLocked(t, want, merge, tos) ==
    \/ StatusAcquire(t, want, merge)
    \/ StatusRelease(t, merge, tos)

\* send_command_to_arduino, lines 130-212, called at position want: the with
\* block of line 132, in its wait loop update_status (line 192)
SendLocked(t, want, locked, status, merge, tos) ==
    \/ SerialAcquire(t, want, locked)
    \/ Moves(t, locked, {status})
    \/ UpdateStatusLocked(t, status, merge, {locked})
    \/ SerialRelease(t, locked, tos)

\* line 493 and line 571 of main
LockMainLoop ==
    \/ running /\ Moves("main", "top", {"read"})
    \/ ~running /\ Moves("main", "top", {"exit"})
    \/ Moves("main", "sleep", {"top"})

\* line 509: read_and_upload_data, its loop of line 337 and update_status
\* at line 354
LockMainRead ==
    \/ Moves("main", "read", {"read_status", "upload"})
    \/ UpdateStatusLocked("main", "read_status", "read_merge", {"read"})

\* lines 512-554: the with status_lock block of line 513, left by its last
\* line or by an exception of a store call or of line 528
LockMainUpload ==
    \/ Moves("main", "upload", {"upload_status", "poll"})
    \/ StatusAcquire("main", "upload_status", "upload_locked")
    \/ StatusRelease("main", "upload_locked", {"poll"})

\* lines 557-568 and process_control_values: the send of line 632, the with
\* status_lock block of line 639, the store call of line 667
LockMainPoll ==
    \/ Moves("main", "poll", {"send_serial", "sleep"})
    \/ SendLocked("main", "send_serial", "send_locked", "send_status", "send_merge",
                  {"report_status"})
    \/ StatusAcquire("main", "report_status", "report_locked")
    \/ StatusRelease("main", "report_locked", {"sleep"})

\* lines 229-244 of control_listener: the send of line 242
LockListenerStartup ==
    \/ Moves("listener", "startup", {"startup_serial", "loop"})
    \/ SendLocked("listener", "startup_serial", "startup_locked", "startup_status",
                  "startup_merge", {"loop"})

\* lines 249-310 of control_listener: the send of line 283, the with
\* status_lock block of line 291, left also by an exception of lines 295-299
LockListenerPoll ==
    \/ running /\ Moves("listener", "loop", {"poll"})
    \/ ~running /\ Moves("listener", "loop", {"exit"})
    \/ Moves("listener", "poll", {"send_serial", "loop"})
    \/ SendLocked("listener", "send_serial", "send_locked", "send_status", "send_merge",
                  {"report_status"})
    \/ StatusAcquire("listener", "report_status", "report_locked")
    \/ StatusRelease("listener", "report_locked", {"loop"})

InitLocks ==
    /\ current_status = InitialStatus
    /\ buffer = <<>>
    /\ error_count = 0
    /\ ser = OpenSerial
    /\ script = <<>>
    /\ wire = <<>>
    /\ merges = <<>>
    /\ one_read = FALSE
    /\ faults = [stream |-> MaxFaults, store |-> 0, port |-> 0]
    /\ hung = FALSE
    /\ now = 0
    /\ serial_lock = "free"
    /\ status_lock = "free"
    /\ send = SendIdle
    /\ remote = <<>>
    /\ plan = <<>>
    /\ previous_control = UnsetCache
    /\ recon = ReconIdle
    /\ listener = [ListenerOff EXCEPT !.pc = "startup"]
    /\ cycles = <<>>
    /\ main = MainStart(0)
    /\ store_up = TRUE
    /\ sensor_db = <<>>
    /\ resets = <<>>
    /\ stalls = 0
    /\ running = TRUE

NextLocks ==
    \/ LockMainLoop
    \/ LockMainRead
    \/ LockMainUpload
    \/ LockMainPoll
    \/ LockListenerStartup
    \/ LockListenerPoll
    \/ SignalHandler

SpecLocks == InitLocks /\ [][NextLocks]_vars

(***************************************************************************)
(* The order of the two locks                                              *)
(***************************************************************************)
\* t stands at a with status_lock line, at the with serial_lock line
WantsStatus(t) ==
    Pc(t) \in {"read_status", "upload_status", "send_status", "startup_status",
               "report_status"}
WantsSerial(t) == Pc(t) \in {"send_serial", "startup_serial"}

\* t waits for a lock that u holds
WaitsFor(t, u) ==
    \/ WantsStatus(t) /\ status_lock = u
    \/ WantsSerial(t) /\ serial_lock = u

\* t stands at a with line whose lock is held
Blocked(t) ==
    \/ WantsStatus(t) /\ status_lock # "free"
    \/ WantsSerial(t) /\ serial_lock # "free"

\* t is between two calls: at the top of its loop, asleep, or gone
Outside(t) == Pc(t) \in {"top", "sleep", "loop", "startup", "exit"}

\* C26: Deadlock freedom of the two locks.  With main and control_listener
\* running as two threads, status_lock is requested only by a thread that
\* holds no lock or serial_lock alone, serial_lock is never requested by a
\* thread that holds status_lock, no state has each thread waiting for a lock
\* the other holds, and every lock taken is released on every path.
C26_LockOrder ==
    /\ \A t \in Threads :
          /\ WantsStatus(t) => status_lock # t
          /\ WantsSerial(t) => (status_lock # t /\ serial_lock # t)
          /\ Outside(t) => (status_lock # t /\ serial_lock # t)
          /\ ~WaitsFor(t, t)
    /\ ~(WaitsFor("main", "listener") /\ WaitsFor("listener", "main"))
    /\ (\E t \in Threads : Pc(t) # "exit")
          => \E t \in Threads : Pc(t) # "exit" /\ ~Blocked(t)

\* main, inside a send, waits for status_lock, which control_listener
\* holds at line 291, while main holds serial_lock
C26_Witness ==
    /\ main.pc = "send_status"
    /\ serial_lock = "main"
    /\ status_lock = "listener"
    /\ listener.pc = "report_locked"

====
